---- MODULE Spec2Model ----
(***************************************************************************)
(* gmail-sdk: the credential store, the token lifecycle manager and the    *)
(* authorization flow of src/gmail_sdk/auth.py, with the client            *)
(* constructor of src/gmail_sdk/client.py that drives them.                *)
(*                                                                         *)
(* Two operating-system processes (Procs) use the library on one secrets   *)
(* directory.  Each statement of the library that touches the file system, *)
(* the clock, the loopback port or the token endpoint is one action; the   *)
(* purely local statements that follow it belong to the same action.       *)
(*                                                                         *)
(* The message functions are modelled beside them, each call one action:   *)
(* reply, reply_all and forward of src/gmail_sdk/convenience.py            *)
(* (ReplySpec), _extract_body of the same file (ExtractSpec), the builders *)
(* of src/gmail_sdk/mime_utils.py (MimeSpec), and the verbs of client.py   *)
(* with the endpoint wrappers that post through them (TransportSpec).      *)
(***************************************************************************)
EXTENDS Integers, Sequences, FiniteSets, TLC

\* ---------------------------------------------------------------- bounds
\* The wall clock runs from 0 to MaxClock seconds.
MaxClock == 2
\* Each process makes at most MaxCalls library calls.
MaxCalls == 2
\* A client handle sends at most MaxRequests requests.
MaxRequests == 2

\* ------------------------------------------------------ program constants
\* auth.py:164  the safety margin of the expiry test, in seconds
REFRESH_MARGIN == 300
\* auth.py:92, auth.py:122  expires_in when the response carries none
DEFAULT_EXPIRES_IN == 3600
\* auth.py:150  0o600, the mode os.open creates the token file with
MODE_0600 == 384

\* --------------------------------------------------------------- universe
Procs == {"p1", "p2"}
Accounts == {"work"}

\* Access tokens the token endpoint issues; they differ in length.
IssuedTokens == {"A1", "A2-long"}
LongStrings == {"A2-long"}
\* Modes a token file that was not created by _save_token may carry.
ForeignModes == {420}

\* ------------------------------------------------------- dicts (JSON objects)
\* A Python dict with string keys is a function from its keys.
EmptyDict == [k \in {} |-> 0]
Get(d, k, default) == IF k \in DOMAIN d THEN d[k] ELSE default
Put(d, k, v) == [x \in (DOMAIN d) \cup {k} |-> IF x = k THEN v ELSE d[x]]

\* json.dump keeps the insertion order of the keys: the order of the token
\* endpoint's response, with expires_at appended by exchange_code.
KeyOrder ==
    <<"access_token", "expires_in", "refresh_token", "scope", "token_type",
      "id_token", "expires_at">>
KeySet == {KeyOrder[i] : i \in 1..Len(KeyOrder)}
StringKeys == KeySet \ {"expires_in", "expires_at"}

\* The file is a sequence of cells; a value takes as many cells as it is wide.
Width(k, v) == IF k \in StringKeys /\ v \in LongStrings THEN 2 ELSE 1
OpenBrace == <<"{", "", 0>>
CloseBrace == <<"}", "", 0>>

RECURSIVE DumpFields(_, _)
DumpFields(d, i) ==
    IF i > Len(KeyOrder) THEN <<>>
    ELSE LET k == KeyOrder[i]
         IN  (IF k \in DOMAIN d
              THEN [j \in 1..Width(k, d[k]) |-> <<k, d[k], j>>]
              ELSE <<>>) \o DumpFields(d, i + 1)

\* json.dump(token_data, f, indent=2): the text of the object.
JsonDump(d) == <<OpenBrace>> \o DumpFields(d, 1) \o <<CloseBrace>>

\* The object a text would denote, were it well formed.
JsonFields(data) ==
    LET idx == {i \in 1..Len(data) : data[i][1] \in KeySet}
        first(k) == CHOOSE i \in idx :
                       /\ data[i][1] = k
                       /\ \A j \in idx : data[j][1] = k => i <= j
    IN  [k \in {data[i][1] : i \in idx} |-> data[first(k)][2]]

\* json.load accepts exactly the texts json.dump produces: an empty file,
\* and an object followed by more bytes, raise JSONDecodeError.
JsonValid(data) == Len(data) >= 2 /\ JsonDump(JsonFields(data)) = data

\* ------------------------------------------------------------- file system
NoFile == [exists |-> FALSE, mode |-> 0, data |-> <<>>]

\* os.open(path, O_WRONLY | O_CREAT | O_TRUNC, 0o600): the mode argument is
\* used only when the call creates the file (the umask is taken to leave the
\* owner's bits alone); an existing file is truncated and keeps its mode.
OsOpenTrunc(f) ==
    IF f.exists THEN [f EXCEPT !.data = <<>>]
    ELSE [exists |-> TRUE, mode |-> MODE_0600, data |-> <<>>]

\* write(fd, bytes) on a descriptor at offset 0 (not O_APPEND): the bytes
\* replace the first Len(bytes) bytes, whatever lies beyond them stays.
OsWrite(f, bytes) ==
    [f EXCEPT !.data = bytes \o SubSeq(f.data, Len(bytes) + 1, Len(f.data))]

\* ---------------------------------------------------------------- state
VARIABLES
    now,         \* time.time(), in whole seconds
    fs,          \* the token files gmail-{account}.json of the secrets directory
    credsFile,   \* credentials.json of the secrets directory
    port,        \* the process listening on localhost:8090, or "" for none
    pc,          \* where each process stands in its call
    op,          \* the library call a process is in: "client" or "authorize"
    acct,        \* the call's account argument
    token_data,  \* the local token_data of the call
    new_data,    \* the local new_data of _load_and_refresh_token
    auth_code,   \* the nonlocal auth_code of authorize ("" is None)
    result,      \* self.access_token of the constructed client
    err,         \* the exception the call ended with
    calls,       \* calls each process has started
    log,         \* what the current call has done so far, in order
    readData,    \* the text _load_token read in the current call
    checkNow,    \* the time.time() the expiry test of the current call read
    lastWrite,   \* per account, the text of the latest write() to its file
    expectRT,    \* per account, the refresh token a series of refreshes must keep
    request,     \* the request the loopback listener of the current call handled
    posted,      \* the token endpoint's latest answer to the call, and the time.time() read after it
    original,    \* the message resource get_message returns
    emailAddress, \* get_profile()["emailAddress"]
    api_calls,   \* the client methods a convenience method has called, in order
    args,        \* the arguments of a mime_utils builder, or of a transport call
    raw,         \* what the builder returned
    payload,     \* the payload argument of _extract_body
    mime_type,   \* its mime_type argument
    ret          \* what _extract_body, a convenience method or a transport call returned or raised

vars ==
    <<now, fs, credsFile, port, pc, op, acct, token_data, new_data, auth_code,
      result, err, calls, log, readData, checkNow, lastWrite, expectRT,
      request, posted, original, emailAddress, api_calls, args, raw,
      payload, mime_type, ret>>

\* The variables of the message helpers, which the token lifecycle and the
\* authorization flow leave alone.
libVars == <<original, emailAddress, api_calls, args, raw, payload, mime_type, ret>>

Terminal == {"idle", "ready", "failed"}
NoError == [type |-> "", msg |-> <<>>]

\* ----------------------------------------------------------- environment
\* Token records this library has written earlier: exchange_code's result.
InitExpiries == {299, 301, 302}
StoredRecord(exp, withRefresh) ==
    LET base == [access_token |-> "A0", expires_in |-> 3599,
                 token_type |-> "Bearer", expires_at |-> exp]
    IN  IF withRefresh THEN Put(base, "refresh_token", "R1") ELSE base
\* The exchange response may have carried the granted scope, which the record
\* then keeps.
InitRecords ==
    {StoredRecord(e, TRUE) : e \in InitExpiries} \cup {StoredRecord(299, FALSE)}
    \cup {Put(StoredRecord(299, TRUE), "scope", "gmail.modify")}
InitFiles ==
    {NoFile} \cup
    {[exists |-> TRUE, mode |-> m, data |-> JsonDump(r)] :
        m \in {MODE_0600} \cup ForeignModes, r \in InitRecords}

ClientConfig == [client_id |-> "cid", client_secret |-> "secret"]
NoCreds == [exists |-> FALSE, json |-> EmptyDict]
CredsFiles ==
    {NoCreds} \cup
    {[exists |-> TRUE, json |-> j] :
        j \in {EmptyDict, [installed |-> ClientConfig], [web |-> ClientConfig]}}

\* What the token endpoint may answer with status 200:
\* {access_token, expires_in?, refresh_token?, token_type, id_token?}.
ExpiresInChoices == {301}
TokenResponse(at, rt, ei) ==
    LET base == [access_token |-> at, token_type |-> "Bearer"]
        withEi == IF ei < 0 THEN base ELSE Put(base, "expires_in", ei)
    IN  IF rt = "" THEN withEi ELSE Put(withEi, "refresh_token", rt)
TokenResponses ==
    {TokenResponse(at, rt, ei) :
        at \in IssuedTokens, rt \in {"", "R2"}, ei \in {-1} \cup ExpiresInChoices}
    \cup {Put(TokenResponse("A1", "", 301), "id_token", "ID1")}

\* The request the loopback listener receives: GET /?code=..., a GET with no
\* code parameter, a GET with a blank one (parse_qs drops it), or no GET.
CallbackRequests ==
    {[method |-> "GET", query |-> [code |-> "CODE1"]],
     [method |-> "GET", query |-> [code |-> ""]],
     [method |-> "GET", query |-> EmptyDict],
     [method |-> "POST", query |-> [code |-> "CODE1"]]}

\* No request handled yet, no answer of the token endpoint yet.
NoRequest == [method |-> "", query |-> EmptyDict]
NoPost == [at |-> -1, response |-> EmptyDict]

\* The message helpers at rest: nothing fetched, built or extracted.
NotCalled == [kind |-> "not called"]
NotBuilt == [base64url |-> <<>>, padding |-> FALSE]
MailIdle == original = EmptyDict /\ emailAddress = "" /\ api_calls = <<>>
MimeIdle == args = EmptyDict /\ raw = NotBuilt
BodyIdle == payload = EmptyDict /\ mime_type = "" /\ ret = NotCalled
LibIdle == MailIdle /\ MimeIdle /\ BodyIdle

\* The secrets directory and the processes before any call.
AuthInit ==
    /\ now = 0
    /\ fs \in [Accounts -> InitFiles]
    /\ credsFile \in CredsFiles
    /\ port = ""
    /\ pc = [p \in Procs |-> "idle"]
    /\ op = [p \in Procs |-> ""]
    /\ acct = [p \in Procs |-> ""]
    /\ token_data = [p \in Procs |-> EmptyDict]
    /\ new_data = [p \in Procs |-> EmptyDict]
    /\ auth_code = [p \in Procs |-> ""]
    /\ result = [p \in Procs |-> ""]
    /\ err = [p \in Procs |-> NoError]
    /\ calls = [p \in Procs |-> 0]
    /\ log = [p \in Procs |-> <<>>]
    /\ readData = [p \in Procs |-> <<>>]
    /\ checkNow = [p \in Procs |-> -1]
    /\ lastWrite = [a \in Accounts |-> fs[a].data]
    /\ expectRT = [a \in Accounts |-> Get(JsonFields(fs[a].data), "refresh_token", "")]
    /\ request = [p \in Procs |-> NoRequest]
    /\ posted = [p \in Procs |-> NoPost]

Init == AuthInit /\ LibIdle

\* The token lifecycle at rest, for the specifications of the message helpers.
AuthIdle ==
    /\ AuthInit
    /\ fs = [a \in Accounts |-> NoFile]
    /\ credsFile = NoCreds
authVars ==
    <<now, fs, credsFile, port, pc, op, acct, token_data, new_data, auth_code,
      result, err, calls, log, readData, checkNow, lastWrite, expectRT,
      request, posted>>

\* The clock advances on its own.
Tick ==
    /\ now < MaxClock
    /\ now' = now + 1
    /\ UNCHANGED <<fs, credsFile, port, pc, op, acct, token_data, new_data,
                   auth_code, result, err, calls, log, readData, checkNow,
                   lastWrite, expectRT>>
    /\ UNCHANGED <<request, posted, libVars>>

\* --------------------------------------------------- steps shared by calls
Logged(p, event) == log' = [log EXCEPT ![p] = Append(@, event)]

\* An exception leaves the call.
Raise(p, type, msg) ==
    /\ pc' = [pc EXCEPT ![p] = "failed"]
    /\ err' = [err EXCEPT ![p] = [type |-> type, msg |-> msg]]

Goto(p, label) ==
    /\ pc' = [pc EXCEPT ![p] = label]
    /\ UNCHANGED err

\* A process starts a call with fresh locals.
Start(p, call, a, label) ==
    /\ calls' = [calls EXCEPT ![p] = @ + 1]
    /\ op' = [op EXCEPT ![p] = call]
    /\ acct' = [acct EXCEPT ![p] = a]
    /\ pc' = [pc EXCEPT ![p] = label]
    /\ token_data' = [token_data EXCEPT ![p] = EmptyDict]
    /\ new_data' = [new_data EXCEPT ![p] = EmptyDict]
    /\ auth_code' = [auth_code EXCEPT ![p] = ""]
    /\ result' = [result EXCEPT ![p] = ""]
    /\ err' = [err EXCEPT ![p] = NoError]
    /\ log' = [log EXCEPT ![p] = <<>>]
    /\ readData' = [readData EXCEPT ![p] = <<>>]
    /\ checkNow' = [checkNow EXCEPT ![p] = -1]
    /\ request' = [request EXCEPT ![p] = NoRequest]
    /\ posted' = [posted EXCEPT ![p] = NoPost]
    /\ api_calls' = <<>>
    /\ UNCHANGED <<now, fs, credsFile, port, lastWrite, expectRT>>
    /\ UNCHANGED <<original, emailAddress, args, raw, payload, mime_type, ret>>

\* _load_credentials(secrets_dir): the client configuration, or the
\* exception open() or the function itself raises.
LoadCredentialsResult(file) ==
    IF ~file.exists THEN [ok |-> FALSE, error |-> "FileNotFoundError", creds |-> EmptyDict]
    ELSE IF "installed" \in DOMAIN file.json
         THEN [ok |-> TRUE, error |-> "", creds |-> file.json["installed"]]
    ELSE IF "web" \in DOMAIN file.json
         THEN [ok |-> TRUE, error |-> "", creds |-> file.json["web"]]
    ELSE [ok |-> FALSE, error |-> "ValueError", creds |-> EmptyDict]

\* ------------------------------------------- GmailClient(account=...)
\* client.py:62-63: with an account and no explicit access_token the
\* constructor calls _load_and_refresh_token.
NewClient(p) ==
    /\ pc[p] \in Terminal
    /\ calls[p] < MaxCalls
    /\ \E a \in Accounts : Start(p, "client", a, "load")

\* Variant: the message does not name the account.
NoTokenMessageGeneric(a) ==
    <<"No token file.", "Run GmailClient.authorize() first.">>

NoTokenMessage(a) ==
    <<"No token file for account", a, "Run GmailClient.authorize(account=", a, ") first.">>

\* _load_token, and the None test of _load_and_refresh_token.
LoadToken(p) ==
    /\ pc[p] = "load"
    /\ LET f == fs[acct[p]]
       IN  /\ readData' = [readData EXCEPT ![p] = f.data]
           /\ IF ~f.exists
              THEN /\ Raise(p, "FileNotFoundError", NoTokenMessage(acct[p]))
                   /\ UNCHANGED token_data
              ELSE IF ~JsonValid(f.data)
              THEN /\ Raise(p, "JSONDecodeError", <<>>)
                   /\ UNCHANGED token_data
              ELSE /\ token_data' = [token_data EXCEPT ![p] = JsonFields(f.data)]
                   /\ Goto(p, "check")
    /\ Logged(p, "load")
    /\ UNCHANGED <<now, fs, credsFile, port, op, acct, new_data, auth_code,
                   result, calls, checkNow, lastWrite, expectRT>>
    /\ UNCHANGED <<request, posted, libVars>>

\* Variants of the expiry test: a non-strict comparison, and a margin
\* subtracted from the clock instead of added to it.
NeedsRefreshNonStrict(td, t) == Get(td, "expires_at", 0) <= t + REFRESH_MARGIN
NeedsRefreshLate(td, t) == Get(td, "expires_at", 0) < t - REFRESH_MARGIN

\* The expiry test, token_data.get("expires_at", 0) < time.time() + 300.
NeedsRefresh(td, t) == Get(td, "expires_at", 0) < t + REFRESH_MARGIN

CheckExpiry(p) ==
    /\ pc[p] = "check"
    /\ checkNow' = [checkNow EXCEPT ![p] = now]
    /\ IF NeedsRefresh(token_data[p], now)
       THEN Goto(p, "creds")
       ELSE Goto(p, "return")
    /\ Logged(p, "check")
    /\ UNCHANGED <<now, fs, credsFile, port, op, acct, token_data, new_data,
                   auth_code, result, calls, readData, lastWrite, expectRT>>
    /\ UNCHANGED <<request, posted, libVars>>

\* The refresh branch up to the call of refresh_access_token: the client
\* configuration is read, then the arguments are evaluated.
LoadCredentials(p) ==
    /\ pc[p] = "creds"
    /\ LET r == LoadCredentialsResult(credsFile)
       IN  IF ~r.ok
           THEN Raise(p, r.error, <<>>)
           ELSE IF "refresh_token" \notin DOMAIN token_data[p]
           THEN Raise(p, "KeyError", <<"refresh_token">>)
           ELSE Goto(p, "refresh")
    /\ Logged(p, "creds")
    /\ UNCHANGED <<now, fs, credsFile, port, op, acct, token_data, new_data,
                   auth_code, result, calls, readData, checkNow, lastWrite,
                   expectRT>>
    /\ UNCHANGED <<request, posted, libVars>>

\* What the token endpoint's failure raises: httpx.post raises on a network
\* error, raise_for_status on a non-2xx response.
PostFailures == {"ConnectError", "HTTPStatusError"}

\* Variant: the relative lifetime is stored as it came.
WithExpiresAtRelative(resp, t) ==
    Put(resp, "expires_at", Get(resp, "expires_in", DEFAULT_EXPIRES_IN))

\* expires_at of exchange_code and refresh_access_token.
WithExpiresAt(resp, t) ==
    Put(resp, "expires_at", t + Get(resp, "expires_in", DEFAULT_EXPIRES_IN))

\* Variant: the response replaces the stored record.
MergeRefreshReplace(td, nd) == nd

\* Variant: the response is merged into the stored record, dict.update.
MergeRefreshUpdate(td, nd) ==
    [k \in (DOMAIN td) \cup (DOMAIN nd) |-> IF k \in DOMAIN nd THEN nd[k] ELSE td[k]]

\* What the refresh branch copies from new_data into token_data.
MergeRefresh(td, nd) ==
    LET t1 == Put(td, "access_token", nd["access_token"])
        t2 == Put(t1, "expires_at", nd["expires_at"])
    IN  IF "refresh_token" \in DOMAIN nd
        THEN Put(t2, "refresh_token", nd["refresh_token"])
        ELSE t2

\* Variant: a failed post is tried a second time.
RefreshAccessTokenRetry(p) ==
    /\ pc[p] = "refresh"
    /\ \/ \E e \in PostFailures :
             /\ IF "post" \in {log[p][i] : i \in DOMAIN log[p]}
                THEN Raise(p, e, <<>>)
                ELSE UNCHANGED <<pc, err>>
             /\ UNCHANGED <<token_data, new_data, posted>>
       \/ \E resp \in TokenResponses :
             LET nd == WithExpiresAt(resp, now)
             IN  /\ new_data' = [new_data EXCEPT ![p] = nd]
                 /\ token_data' = [token_data EXCEPT ![p] = MergeRefresh(@, nd)]
                 /\ posted' = [posted EXCEPT ![p] = [at |-> now, response |-> resp]]
                 /\ Goto(p, "save_open")
    /\ Logged(p, "post")
    /\ UNCHANGED <<now, fs, credsFile, port, op, acct, auth_code, result,
                   calls, readData, checkNow, lastWrite, expectRT>>
    /\ UNCHANGED <<request, libVars>>

\* Variant: the refreshed record is returned without being saved.
RefreshAccessTokenNoSave(p) ==
    /\ pc[p] = "refresh"
    /\ \/ \E e \in PostFailures :
             /\ Raise(p, e, <<>>)
             /\ UNCHANGED <<token_data, new_data, posted>>
       \/ \E resp \in TokenResponses :
             LET nd == WithExpiresAt(resp, now)
             IN  /\ new_data' = [new_data EXCEPT ![p] = nd]
                 /\ token_data' = [token_data EXCEPT ![p] = MergeRefresh(@, nd)]
                 /\ posted' = [posted EXCEPT ![p] = [at |-> now, response |-> resp]]
                 /\ Goto(p, "return")
    /\ Logged(p, "post")
    /\ UNCHANGED <<now, fs, credsFile, port, op, acct, auth_code, result,
                   calls, readData, checkNow, lastWrite, expectRT>>
    /\ UNCHANGED <<request, libVars>>

\* refresh_access_token, and the assignments that follow its return.
RefreshAccessToken(p) ==
    /\ pc[p] = "refresh"
    /\ \/ \E e \in PostFailures :
             /\ Raise(p, e, <<>>)
             /\ UNCHANGED <<token_data, new_data, posted>>
       \/ \E resp \in TokenResponses :
             LET nd == WithExpiresAt(resp, now)
             IN  /\ new_data' = [new_data EXCEPT ![p] = nd]
                 /\ token_data' = [token_data EXCEPT ![p] = MergeRefresh(@, nd)]
                 /\ posted' = [posted EXCEPT ![p] = [at |-> now, response |-> resp]]
                 /\ Goto(p, "save_open")
    /\ Logged(p, "post")
    /\ UNCHANGED <<now, fs, credsFile, port, op, acct, auth_code, result,
                   calls, readData, checkNow, lastWrite, expectRT>>
    /\ UNCHANGED <<request, libVars>>

\* _save_token, first statement: os.open of the token file.
OpenTokenFile(p, label) ==
    /\ fs' = [fs EXCEPT ![acct[p]] = OsOpenTrunc(@)]
    /\ Goto(p, label)
    /\ Logged(p, "open")
    /\ UNCHANGED <<now, credsFile, port, op, acct, token_data, new_data,
                   auth_code, result, calls, readData, checkNow, lastWrite,
                   expectRT>>
    /\ UNCHANGED <<request, posted, libVars>>

\* _save_token, the with block: json.dump fills the buffer of the file
\* object and leaving the block writes it out and closes the descriptor.
WriteTokenFile(p, label, rt) ==
    /\ fs' = [fs EXCEPT ![acct[p]] = OsWrite(@, JsonDump(token_data[p]))]
    /\ lastWrite' = [lastWrite EXCEPT ![acct[p]] = JsonDump(token_data[p])]
    /\ expectRT' = [expectRT EXCEPT ![acct[p]] = rt]
    /\ Goto(p, label)
    /\ Logged(p, "write")
    /\ UNCHANGED <<now, credsFile, port, op, acct, token_data, new_data,
                   auth_code, result, calls, readData, checkNow>>
    /\ UNCHANGED <<request, posted, libVars>>

SaveOpen(p) == pc[p] = "save_open" /\ OpenTokenFile(p, "save_write")

SaveWrite(p) ==
    /\ pc[p] = "save_write"
    /\ WriteTokenFile(p, "return",
                      Get(new_data[p], "refresh_token", expectRT[acct[p]]))

\* return token_data["access_token"], and the rest of the constructor.
ReturnToken(p) ==
    /\ pc[p] = "return"
    /\ result' = [result EXCEPT ![p] = token_data[p]["access_token"]]
    /\ Goto(p, "ready")
    /\ Logged(p, "return")
    /\ UNCHANGED <<now, fs, credsFile, port, op, acct, token_data, new_data,
                   auth_code, calls, readData, checkNow, lastWrite, expectRT>>
    /\ UNCHANGED <<request, posted, libVars>>

\* Tokens a caller passes to the constructor; "" is the empty string or None.
ExplicitTokens == {"T1", ""}

\* Variant: an account given with the access_token is loaded all the same.
NewClientTokenAccountFirst(p) ==
    /\ pc[p] \in Terminal
    /\ calls[p] < MaxCalls
    /\ \E a \in Accounts : Start(p, "client(access_token)", a, "load")

\* GmailClient(access_token=...), with or without an account, and
\* GmailClient(): client.py:62 is false and nothing is loaded.
NewClientToken(p) ==
    /\ pc[p] \in Terminal
    /\ calls[p] < MaxCalls
    /\ \E a \in Accounts \cup {""}, tok \in ExplicitTokens :
          /\ calls' = [calls EXCEPT ![p] = @ + 1]
          /\ op' = [op EXCEPT ![p] = "client(access_token)"]
          /\ acct' = [acct EXCEPT ![p] = a]
          /\ pc' = [pc EXCEPT ![p] = "ready"]
          /\ result' = [result EXCEPT ![p] = tok]
    /\ token_data' = [token_data EXCEPT ![p] = EmptyDict]
    /\ new_data' = [new_data EXCEPT ![p] = EmptyDict]
    /\ auth_code' = [auth_code EXCEPT ![p] = ""]
    /\ err' = [err EXCEPT ![p] = NoError]
    /\ log' = [log EXCEPT ![p] = <<>>]
    /\ readData' = [readData EXCEPT ![p] = <<>>]
    /\ checkNow' = [checkNow EXCEPT ![p] = -1]
    /\ request' = [request EXCEPT ![p] = NoRequest]
    /\ posted' = [posted EXCEPT ![p] = NoPost]
    /\ api_calls' = <<>>
    /\ UNCHANGED <<now, fs, credsFile, port, lastWrite, expectRT>>
    /\ UNCHANGED <<original, emailAddress, args, raw, payload, mime_type, ret>>

\* The headers the constructor gives httpx.Client, client.py:67-69.
Headers(access_token) ==
    IF access_token # ""
    THEN [Authorization |-> <<"Bearer", access_token>>]
    ELSE EmptyDict

\* self._http.get(...), .post(...), ...: a request of the constructed
\* client goes out with the headers of the handle.
SendRequest(p) ==
    /\ pc[p] = "ready"
    /\ Len(api_calls) < MaxRequests
    /\ api_calls' = Append(api_calls, [headers |-> Headers(result[p])])
    /\ UNCHANGED authVars
    /\ UNCHANGED <<original, emailAddress, args, raw, payload, mime_type, ret>>

\* ------------------------------------------------------------- authorize
\* authorize(account): the first statement loads the client configuration.
Authorize(p) ==
    /\ pc[p] \in Terminal
    /\ calls[p] < MaxCalls
    /\ \E a \in Accounts : Start(p, "authorize", a, "auth_creds")

AuthLoadCredentials(p) ==
    /\ pc[p] = "auth_creds"
    /\ LET r == LoadCredentialsResult(credsFile)
       IN  IF ~r.ok THEN Raise(p, r.error, <<>>) ELSE Goto(p, "bind")
    /\ Logged(p, "creds")
    /\ UNCHANGED <<now, fs, credsFile, port, op, acct, token_data, new_data,
                   auth_code, result, calls, readData, checkNow, lastWrite,
                   expectRT>>
    /\ UNCHANGED <<request, posted, libVars>>

\* Variant: the server object is made without binding the port.
BindListenerDeferred(p) ==
    /\ pc[p] = "bind"
    /\ Goto(p, "browser")
    /\ Logged(p, "bind")
    /\ UNCHANGED <<now, fs, credsFile, port, op, acct, token_data, new_data,
                   auth_code, result, calls, readData, checkNow, lastWrite,
                   expectRT>>
    /\ UNCHANGED <<request, posted, libVars>>

\* HTTPServer(("localhost", 8090), _Handler) binds and listens; the port is
\* taken while another process listens on it.
BindListener(p) ==
    /\ pc[p] = "bind"
    /\ IF port # ""
       THEN Raise(p, "OSError", <<"address in use">>) /\ UNCHANGED port
       ELSE port' = p /\ Goto(p, "browser")
    /\ Logged(p, "bind")
    /\ UNCHANGED <<now, fs, credsFile, op, acct, token_data, new_data,
                   auth_code, result, calls, readData, checkNow, lastWrite,
                   expectRT>>
    /\ UNCHANGED <<request, posted, libVars>>

\* webbrowser.open(auth_url): best effort, its result is not looked at.
OpenBrowser(p) ==
    /\ pc[p] = "browser"
    /\ Goto(p, "await")
    /\ Logged(p, "browser")
    /\ UNCHANGED <<now, fs, credsFile, port, op, acct, token_data, new_data,
                   auth_code, result, calls, readData, checkNow, lastWrite,
                   expectRT>>
    /\ UNCHANGED <<request, posted, libVars>>

\* qs.get("code", [None])[0] of do_GET: parse_qs drops a blank value.
CodeOf(req) ==
    IF "code" \in DOMAIN req.query /\ req.query["code"] # ""
    THEN req.query["code"]
    ELSE ""

\* Variant: the listener has a timeout, after which handle_request returns
\* without having handled a request.
HandleRequestTimeout(p) ==
    /\ pc[p] = "await"
    /\ port = p
    /\ \/ \E req \in CallbackRequests :
             /\ request' = [request EXCEPT ![p] = req]
             /\ auth_code' = [auth_code EXCEPT ![p] = IF req.method = "GET" THEN CodeOf(req) ELSE @]
             /\ log' = [log EXCEPT ![p] = @ \o <<"request", IF req.method = "GET" THEN "200" ELSE "501">>]
       \/ /\ now > 0
          /\ log' = [log EXCEPT ![p] = Append(@, "timeout")]
          /\ UNCHANGED <<request, auth_code>>
    /\ Goto(p, "close")
    /\ UNCHANGED <<now, fs, credsFile, port, op, acct, token_data, new_data,
                   result, calls, readData, checkNow, lastWrite, expectRT>>
    /\ UNCHANGED <<posted, libVars>>

\* server.handle_request(): blocks until one request arrives and handles
\* it; only a GET reaches do_GET.
HandleRequest(p) ==
    /\ pc[p] = "await"
    /\ port = p
    /\ \E req \in CallbackRequests :
          /\ request' = [request EXCEPT ![p] = req]
          /\ IF req.method = "GET"
             THEN /\ auth_code' = [auth_code EXCEPT ![p] = CodeOf(req)]
                  /\ log' = [log EXCEPT ![p] = @ \o <<"request", "200">>]
             ELSE /\ UNCHANGED auth_code
                  /\ log' = [log EXCEPT ![p] = @ \o <<"request", "501">>]
    /\ Goto(p, "close")
    /\ UNCHANGED <<now, fs, credsFile, port, op, acct, token_data, new_data,
                   result, calls, readData, checkNow, lastWrite, expectRT>>
    /\ UNCHANGED <<posted, libVars>>

\* Variant: auth_code is not tested.
ServerCloseNoCheck(p) ==
    /\ pc[p] = "close"
    /\ port' = ""
    /\ Goto(p, "exchange")
    /\ Logged(p, "close")
    /\ UNCHANGED <<now, fs, credsFile, op, acct, token_data, new_data,
                   auth_code, result, calls, readData, checkNow, lastWrite,
                   expectRT>>
    /\ UNCHANGED <<request, posted, libVars>>

\* server.server_close(), then the test of auth_code.
ServerClose(p) ==
    /\ pc[p] = "close"
    /\ port' = ""
    /\ IF auth_code[p] = ""
       THEN Raise(p, "RuntimeError", <<"No auth code received from OAuth callback">>)
       ELSE Goto(p, "exchange")
    /\ Logged(p, "close")
    /\ UNCHANGED <<now, fs, credsFile, op, acct, token_data, new_data,
                   auth_code, result, calls, readData, checkNow, lastWrite,
                   expectRT>>
    /\ UNCHANGED <<request, posted, libVars>>

\* Variant: the status of the response is not checked, and the body of an
\* error response becomes token_data.
ExchangeCodeUnchecked(p) ==
    /\ pc[p] = "exchange"
    /\ \/ \E e \in PostFailures :
             /\ token_data' = [token_data EXCEPT
                                 ![p] = WithExpiresAt([error |-> "invalid_grant"], now)]
             /\ posted' = [posted EXCEPT
                             ![p] = [at |-> now, response |-> [error |-> "invalid_grant"]]]
             /\ Goto(p, "auth_save_open")
       \/ \E resp \in TokenResponses :
             /\ token_data' = [token_data EXCEPT ![p] = WithExpiresAt(resp, now)]
             /\ posted' = [posted EXCEPT ![p] = [at |-> now, response |-> resp]]
             /\ Goto(p, "auth_save_open")
    /\ Logged(p, "exchange")
    /\ UNCHANGED <<now, fs, credsFile, port, op, acct, new_data, auth_code,
                   result, calls, readData, checkNow, lastWrite, expectRT>>
    /\ UNCHANGED <<request, libVars>>

\* exchange_code: the response with expires_at added becomes token_data.
ExchangeCode(p) ==
    /\ pc[p] = "exchange"
    /\ \/ \E e \in PostFailures :
             /\ Raise(p, e, <<>>)
             /\ UNCHANGED <<token_data, posted>>
       \/ \E resp \in TokenResponses :
             /\ token_data' = [token_data EXCEPT ![p] = WithExpiresAt(resp, now)]
             /\ posted' = [posted EXCEPT ![p] = [at |-> now, response |-> resp]]
             /\ Goto(p, "auth_save_open")
    /\ Logged(p, "exchange")
    /\ UNCHANGED <<now, fs, credsFile, port, op, acct, new_data, auth_code,
                   result, calls, readData, checkNow, lastWrite, expectRT>>
    /\ UNCHANGED <<request, libVars>>

AuthSaveOpen(p) == pc[p] = "auth_save_open" /\ OpenTokenFile(p, "auth_save_write")

\* After the save, authorize constructs GmailClient(account=account).
AuthSaveWrite(p) ==
    /\ pc[p] = "auth_save_write"
    /\ WriteTokenFile(p, "load", Get(token_data[p], "refresh_token", ""))

\* ------------------------------------------------------- specifications
\* The steps of a call once it has started.
CallStep(p) ==
    \/ LoadToken(p)
    \/ CheckExpiry(p)
    \/ LoadCredentials(p)
    \/ RefreshAccessToken(p)
    \/ SaveOpen(p)
    \/ SaveWrite(p)
    \/ ReturnToken(p)
    \/ AuthLoadCredentials(p)
    \/ BindListener(p)
    \/ OpenBrowser(p)
    \/ HandleRequest(p)
    \/ ServerClose(p)
    \/ ExchangeCode(p)
    \/ AuthSaveOpen(p)
    \/ AuthSaveWrite(p)

\* One process uses the secrets directory: its calls follow one another.
Next ==
    \/ Tick
    \/ NewClient("p1")
    \/ NewClientToken("p1")
    \/ Authorize("p1")
    \/ CallStep("p1")
    \/ SendRequest("p1")
Spec == Init /\ [][Next]_vars

\* Two processes share the secrets directory, whose client configuration is
\* in place, and make MaxCalls calls between them, in any interleaving of
\* their steps.
TotalCalls == calls["p1"] + calls["p2"]
RaceNewClient(p) == TotalCalls < MaxCalls /\ NewClient(p)
RaceAuthorize(p) == TotalCalls < MaxCalls /\ Authorize(p)
RaceInit ==
    /\ Init
    /\ credsFile = [exists |-> TRUE, json |-> [installed |-> ClientConfig]]
    /\ fs["work"].mode # MODE_0600 => ~fs["work"].exists
    /\ "refresh_token" \in DOMAIN JsonFields(fs["work"].data) \/ ~fs["work"].exists
RaceNext ==
    \/ Tick
    \/ \E p \in Procs : RaceNewClient(p) \/ RaceAuthorize(p) \/ CallStep(p)
RaceSpec == RaceInit /\ [][RaceNext]_vars


\* =========================================================== message text
\* A text (a header value, a body) is the sequence of its lexical tokens:
\* words, addresses, and the characters , < > " that structure an address
\* list.  The white space between tokens is not kept.  None is Python's
\* None, "" is the empty sequence.
DQUOTE == "\""
None == <<"None">>
Truthy(v) == v # None /\ v # <<>>

\* str.lower() on the tokens and header names that occur.
LowerTable ==
    [t \in {"ME@X.com", "Me@X.com", "ALICE@x.com", "BOB@x.com", "RE:", "Re:",
            "FWD:", "Fwd:",
            "From", "To", "Cc", "Subject", "Message-ID", "References",
            "Reply-To", "REPLY-TO", "In-Reply-To"} |->
        CASE t \in {"ME@X.com", "Me@X.com"} -> "me@x.com"
          [] t = "ALICE@x.com" -> "alice@x.com"
          [] t = "BOB@x.com" -> "bob@x.com"
          [] t \in {"RE:", "Re:"} -> "re:"
          [] t \in {"FWD:", "Fwd:"} -> "fwd:"
          [] t = "From" -> "from"
          [] t = "To" -> "to"
          [] t = "Cc" -> "cc"
          [] t = "Subject" -> "subject"
          [] t = "Message-ID" -> "message-id"
          [] t = "References" -> "references"
          [] t \in {"Reply-To", "REPLY-TO"} -> "reply-to"
          [] t = "In-Reply-To" -> "in-reply-to"]
Lower(t) == IF t \in DOMAIN LowerTable THEN LowerTable[t] ELSE t

\* ", ".join(values)
RECURSIVE JoinComma(_)
JoinComma(values) ==
    IF values = <<>> THEN <<>>
    ELSE IF Len(values) = 1 THEN values[1]
    ELSE values[1] \o <<",">> \o JoinComma(Tail(values))

\* ------------------------------------- email.utils.getaddresses, parseaddr
\* The address list is cut at its commas; a comma between double quotes is
\* part of the quoted string.
RECURSIVE SplitAddresses(_, _, _, _)
SplitAddresses(toks, i, inQuote, cur) ==
    LET done == IF cur = <<>> THEN <<>> ELSE <<cur>>
    IN  IF i > Len(toks) THEN done
        ELSE IF toks[i] = DQUOTE
             THEN SplitAddresses(toks, i + 1, ~inQuote, Append(cur, toks[i]))
        ELSE IF toks[i] = "," /\ ~inQuote
             THEN done \o SplitAddresses(toks, i + 1, FALSE, <<>>)
        ELSE SplitAddresses(toks, i + 1, inQuote, Append(cur, toks[i]))

\* One address: a phrase and an address in angle brackets, the phrase's
\* quotes removed, or else a bare address with no name.
ParseMailbox(item) ==
    LET lt == {i \in 1..Len(item) : item[i] = "<"}
        open == CHOOSE i \in lt : \A j \in lt : i <= j
    IN  IF lt # {}
        THEN [name |-> SelectSeq(SubSeq(item, 1, open - 1), LAMBDA t : t # DQUOTE),
              addr |-> IF open < Len(item) THEN item[open + 1] ELSE ""]
        ELSE [name |-> <<>>, addr |-> item[1]]

\* getaddresses(fieldvalues): the values are joined with commas and parsed.
GetAddresses(fieldvalues) ==
    LET items == SplitAddresses(JoinComma(fieldvalues), 1, FALSE, <<>>)
    IN  [i \in 1..Len(items) |-> ParseMailbox(items[i])]

\* parseaddr(addr): the first address of the text; the strict parser of
\* newer Python releases gives ('', '') for a text holding several.
ParseAddr(addr, strict) ==
    LET found == GetAddresses(<<addr>>)
    IN  IF found = <<>> \/ (strict /\ Len(found) > 1)
        THEN [name |-> <<>>, addr |-> ""]
        ELSE found[1]

\* _extract_email
ExtractEmail(addr, strict) == Lower(ParseAddr(addr, strict).addr)

\* _get_header: the value of the first header of that name, or "".
RECURSIVE GetHeaderFrom(_, _, _)
GetHeaderFrom(headers, name, i) ==
    IF i > Len(headers) THEN <<>>
    ELSE IF Lower(headers[i].name) = Lower(name) THEN headers[i].value
    ELSE GetHeaderFrom(headers, name, i + 1)
GetHeader(headers, name) == GetHeaderFrom(headers, name, 1)

\* ============================================================ mime_utils
\* An email.message object: its headers in the order they were set, its
\* text, and the parts attached to it.
Header(name, value) == [name |-> name, value |-> value]

\* MIMEText(text, subtype): the three headers the constructor sets.
MIMEText(text, subtype) ==
    [headers |-> <<Header("Content-Type", <<subtype>>),
                   Header("MIME-Version", <<"1.0">>),
                   Header("Content-Transfer-Encoding", <<"7bit">>)>>,
     text |-> text,
     parts |-> <<>>]

\* MIMEMultipart("alternative")
MIMEMultipart(subtype) ==
    [headers |-> <<Header("Content-Type", <<subtype>>),
                   Header("MIME-Version", <<"1.0">>)>>,
     text |-> <<>>,
     parts |-> <<>>]

\* msg.attach(part) and msg[name] = value, which appends a header.
Attach(msg, part) == [msg EXCEPT !.parts = Append(@, part)]
SetHeader(msg, name, value) == [msg EXCEPT !.headers = Append(@, Header(name, value))]

\* mime_msg.as_bytes(): the header lines, an empty line, and the text or
\* the parts between boundary lines.  A part holds no further parts.
HeaderLines(msg) == [i \in 1..Len(msg.headers) |-> <<"header", msg.headers[i].name, msg.headers[i].value>>]
PartBytes(part) == <<<<"boundary">>>> \o HeaderLines(part) \o <<<<"blank">>, <<"text", part.text>>>>
RECURSIVE PartsBytes(_)
PartsBytes(parts) ==
    IF parts = <<>> THEN <<>> ELSE PartBytes(Head(parts)) \o PartsBytes(Tail(parts))
AsBytes(msg) ==
    HeaderLines(msg) \o <<<<"blank">>>> \o
    (IF msg.parts = <<>>
     THEN <<<<"text", msg.text>>>>
     ELSE PartsBytes(msg.parts) \o <<<<"end">>>>)

\* encode_message: the bytes in URL-safe base64 with the padding removed.
EncodeMessage(mime_msg) == [base64url |-> AsBytes(mime_msg), padding |-> FALSE]

\* The body of a builder: one text part, or plain and HTML alternatives.
MessageBody(body, html_body) ==
    IF Truthy(html_body)
    THEN Attach(Attach(MIMEMultipart("multipart/alternative"),
                       MIMEText(body, "text/plain")),
                MIMEText(html_body, "text/html"))
    ELSE MIMEText(body, "text/plain")

\* Variant: References is set only when the caller gave one.
BuildReplyMessageNoDefault(a) ==
    LET m0 == MessageBody(a.body, a.html_body)
        m1 == SetHeader(m0, "To", a.to)
        m2 == SetHeader(m1, "Subject", a.subject)
        m3 == SetHeader(m2, "In-Reply-To", a.message_id)
        m4 == IF Truthy(a.references) THEN SetHeader(m3, "References", a.references) ELSE m3
        m5 == IF Truthy(a.from_addr) THEN SetHeader(m4, "From", a.from_addr) ELSE m4
        m6 == IF Truthy(a.cc) THEN SetHeader(m5, "Cc", a.cc) ELSE m5
    IN  EncodeMessage(m6)

\* build_reply_message(to, subject, body, message_id, references, from_addr,
\* cc, html_body), the arguments as one record.
BuildReplyMessage(a) ==
    LET m0 == MessageBody(a.body, a.html_body)
        m1 == SetHeader(m0, "To", a.to)
        m2 == SetHeader(m1, "Subject", a.subject)
        m3 == SetHeader(m2, "In-Reply-To", a.message_id)
        m4 == SetHeader(m3, "References",
                        IF Truthy(a.references) THEN a.references ELSE a.message_id)
        m5 == IF Truthy(a.from_addr) THEN SetHeader(m4, "From", a.from_addr) ELSE m4
        m6 == IF Truthy(a.cc) THEN SetHeader(m5, "Cc", a.cc) ELSE m5
    IN  EncodeMessage(m6)

\* Variant: the HTML part is attached before the plain part.
BuildSimpleMessageHtmlFirst(a) ==
    LET m0 == IF Truthy(a.html_body)
              THEN Attach(Attach(MIMEMultipart("multipart/alternative"),
                                 MIMEText(a.html_body, "text/html")),
                          MIMEText(a.body, "text/plain"))
              ELSE MIMEText(a.body, "text/plain")
        m1 == SetHeader(m0, "To", a.to)
        m2 == SetHeader(m1, "Subject", a.subject)
    IN  EncodeMessage(m2)

\* build_simple_message(to, subject, body, from_addr, cc, bcc, html_body)
BuildSimpleMessage(a) ==
    LET m0 == MessageBody(a.body, a.html_body)
        m1 == SetHeader(m0, "To", a.to)
        m2 == SetHeader(m1, "Subject", a.subject)
        m3 == IF Truthy(a.from_addr) THEN SetHeader(m2, "From", a.from_addr) ELSE m2
        m4 == IF Truthy(a.cc) THEN SetHeader(m3, "Cc", a.cc) ELSE m3
        m5 == IF Truthy(a.bcc) THEN SetHeader(m4, "Bcc", a.bcc) ELSE m4
    IN  EncodeMessage(m5)

\* Variant: the forward is given the threading headers of a reply.
BuildForwardMessageThreaded(a) ==
    BuildReplyMessage([to |-> a.to, subject |-> a.subject, body |-> a.original_body,
                       message_id |-> <<"<orig@x.com>">>, references |-> None,
                       from_addr |-> a.from_addr, cc |-> None, html_body |-> a.html_body])

\* build_forward_message(to, subject, original_body, note, from_addr,
\* html_body).  A line feed is a token of its own in these texts; parts is
\* [note]? + ["\n---------- Forwarded message ----------\n{original_body}"],
\* joined with a line feed between the elements.
BuildForwardMessage(a) ==
    LET banner == <<"\n", "---------- Forwarded message ----------", "\n">>
                      \o a.original_body
        full_body == IF Truthy(a.note) THEN a.note \o <<"\n">> \o banner ELSE banner
        m0 == MessageBody(full_body, a.html_body)
        m1 == SetHeader(m0, "To", a.to)
        m2 == SetHeader(m1, "Subject", a.subject)
        m3 == IF Truthy(a.from_addr) THEN SetHeader(m2, "From", a.from_addr) ELSE m2
    IN  EncodeMessage(m3)

\* The arguments a caller leaves out take their defaults.
ReplyDefaults == [references |-> None, from_addr |-> None, cc |-> None, html_body |-> None]

\* email.message_from_bytes on the decoded text, as the tests read a built
\* message: msg[name] is the value of the first header of that name, None
\* without one; the headers end at the first empty line.
RECURSIVE FirstHeader(_, _, _)
FirstHeader(bytes, name, i) ==
    IF i > Len(bytes) \/ bytes[i][1] # "header" THEN None
    ELSE IF Lower(bytes[i][2]) = Lower(name) THEN bytes[i][3]
    ELSE FirstHeader(bytes, name, i + 1)
MessageHeader(encoded, name) == FirstHeader(encoded.base64url, name, 1)
ContentType(encoded) == MessageHeader(encoded, "Content-Type")
PartCount(encoded) ==
    Cardinality({i \in 1..Len(encoded.base64url) : encoded.base64url[i][1] = "boundary"})

\* ------------------------------------- calls of build_reply_message
\* The arguments of a call; None: the caller leaves the argument out.
BuildReplyArgs ==
    [to : {<<"original@x.com">>},
     subject : {<<"Re:", "Hello">>},
     body : {<<"Thanks!">>, <<>>},
     message_id : {<<"<abc123@x.com>">>, <<>>},
     references : {None, <<>>, <<"<ref1@x.com>", "<abc123@x.com>">>},
     from_addr : {None, <<"sender@x.com">>},
     cc : {None, <<"cc@x.com">>},
     html_body : {None, <<>>, <<"<b>Thanks!</b>">>}]

\* The arguments of the calls of build_simple_message and
\* build_forward_message.
BuildSimpleArgs ==
    [to : {<<"test@x.com">>},
     subject : {<<"Hello">>},
     body : {<<"Plain", "version">>, <<>>},
     from_addr : {None, <<"sender@x.com">>},
     cc : {None, <<"cc@x.com">>},
     bcc : {None, <<"bcc@x.com">>},
     html_body : {None, <<>>, <<"<b>HTML", "version</b>">>}]
BuildForwardArgs ==
    [to : {<<"fwd@x.com">>},
     subject : {<<"Fwd:", "Hello">>},
     original_body : {<<"Original", "content">>, <<>>},
     note : {None, <<>>, <<"FYI">>},
     from_addr : {None, <<"sender@x.com">>},
     html_body : {None, <<>>, <<"<p>Forwarded", "HTML</p>">>}]

CallBuildSimpleMessage ==
    /\ raw = NotBuilt
    /\ args \in BuildSimpleArgs
    /\ raw' = BuildSimpleMessage(args)
    /\ UNCHANGED <<authVars, original, emailAddress, api_calls, args, payload, mime_type, ret>>

CallBuildForwardMessage ==
    /\ raw = NotBuilt
    /\ args \in BuildForwardArgs
    /\ raw' = BuildForwardMessage(args)
    /\ UNCHANGED <<authVars, original, emailAddress, api_calls, args, payload, mime_type, ret>>

CallBuildReplyMessage ==
    /\ raw = NotBuilt
    /\ args \in BuildReplyArgs
    /\ raw' = BuildReplyMessage(args)
    /\ UNCHANGED <<authVars, original, emailAddress, api_calls, args, payload, mime_type, ret>>

MimeInit ==
    /\ AuthIdle
    /\ MailIdle
    /\ BodyIdle
    /\ args \in BuildReplyArgs \cup BuildSimpleArgs \cup BuildForwardArgs
    /\ raw = NotBuilt
MimeNext == CallBuildReplyMessage \/ CallBuildSimpleMessage \/ CallBuildForwardMessage
MimeSpec == MimeInit /\ [][MimeNext]_vars

\* ========================================================= _extract_body
\* ------------------------------------------------------------------ bounds
\* Multipart nodes nest at most MaxDepth deep.
MaxDepth == 3

\* What a call ends with: a str, None, or an exception.
ReturnedText(text) == [kind |-> "str", text |-> text]
ReturnedNone == [kind |-> "None"]
Raised(type) == [kind |-> "raised", type |-> type]

\* ------------------------------------------ base64.urlsafe_b64decode(data)
\* data is the sequence of its characters.  The value of a character of the
\* alphabet after the translation of - and _ to + and /.
B64Table ==
    [c \in {"A", "G", "H", "P", "S", "k", "w", "6", "-", "+", "_", "/"} |->
        CASE c = "A" -> 0 [] c = "G" -> 6 [] c = "H" -> 7 [] c = "P" -> 15
          [] c = "S" -> 18 [] c = "k" -> 36 [] c = "w" -> 48 [] c = "6" -> 58
          [] c \in {"-", "+"} -> 62 [] c \in {"_", "/"} -> 63]
PAD == "="
\* Characters that are not ASCII: str.encode("ascii") raises on them.
NonAscii == {"U+00E9"}

\* binascii.a2b_base64 without strict mode: a character outside the alphabet
\* is skipped; a pad that completes a quad ends the input; input that ends
\* inside a quad raises binascii.Error.
RECURSIVE A2bBase64(_, _, _, _, _, _)
A2bBase64(data, i, quad_pos, leftchar, pads, out) ==
    IF i > Len(data)
    THEN IF quad_pos # 0 THEN Raised("binascii.Error") ELSE [kind |-> "bytes", bytes |-> out]
    ELSE IF data[i] = PAD
         THEN IF quad_pos >= 2 /\ quad_pos + pads + 1 >= 4
              THEN [kind |-> "bytes", bytes |-> out]
              ELSE A2bBase64(data, i + 1, quad_pos, leftchar,
                             IF quad_pos >= 2 THEN pads + 1 ELSE pads, out)
    ELSE IF data[i] \notin DOMAIN B64Table
         THEN A2bBase64(data, i + 1, quad_pos, leftchar, pads, out)
    ELSE LET this_ch == B64Table[data[i]]
         IN  CASE quad_pos = 0 -> A2bBase64(data, i + 1, 1, this_ch, 0, out)
               [] quad_pos = 1 ->
                    A2bBase64(data, i + 1, 2, this_ch % 16, 0,
                              Append(out, leftchar * 4 + (this_ch \div 16)))
               [] quad_pos = 2 ->
                    A2bBase64(data, i + 1, 3, this_ch % 4, 0,
                              Append(out, leftchar * 16 + (this_ch \div 4)))
               [] quad_pos = 3 ->
                    A2bBase64(data, i + 1, 0, 0, 0,
                              Append(out, leftchar * 64 + this_ch))

UrlsafeB64Decode(data) ==
    IF \E i \in DOMAIN data : data[i] \in NonAscii
    THEN Raised("ValueError")
    ELSE A2bBase64(data, 1, 0, 0, 0, <<>>)

\* bytes.decode("utf-8", errors="replace"), as code points: a byte below 0x80
\* is itself, 0xC2..0xDF with a continuation byte is a two-byte character,
\* and any other byte becomes U+FFFD (the data here holds no longer
\* sequence).
REPLACEMENT == 65533
RECURSIVE Utf8Replace(_, _)
Utf8Replace(bytes, i) ==
    IF i > Len(bytes) THEN <<>>
    ELSE IF bytes[i] < 128 THEN <<bytes[i]>> \o Utf8Replace(bytes, i + 1)
    ELSE IF /\ bytes[i] >= 194 /\ bytes[i] <= 223
            /\ i < Len(bytes) /\ bytes[i + 1] >= 128 /\ bytes[i + 1] <= 191
         THEN <<(bytes[i] % 32) * 64 + (bytes[i + 1] % 64)>> \o Utf8Replace(bytes, i + 2)
    ELSE <<REPLACEMENT>> \o Utf8Replace(bytes, i + 1)

\* base64.urlsafe_b64decode(data).decode("utf-8", errors="replace")
DecodeData(data) ==
    LET decoded == UrlsafeB64Decode(data)
    IN  IF decoded.kind = "raised" THEN decoded
        ELSE ReturnedText(Utf8Replace(decoded.bytes, 1))

\* ------------------------------------------------------------ the function
RECURSIVE ExtractBody(_, _)
RECURSIVE FirstOfParts(_, _, _)

\* Variant: an empty text counts as no result and the loop goes on.
FirstOfPartsTruthy(parts, wanted, i) ==
    IF i > Len(parts) THEN ReturnedNone
    ELSE LET found == ExtractBody(parts[i], wanted)
         IN  IF found # ReturnedNone /\ found # ReturnedText(<<>>)
             THEN found
             ELSE FirstOfParts(parts, wanted, i + 1)

\* The loop over payload.get("parts", []): the first found that is not
\* None is returned; an exception leaves the loop.
FirstOfParts(parts, wanted, i) ==
    IF i > Len(parts) THEN ReturnedNone
    ELSE LET found == ExtractBody(parts[i], wanted)
         IN  IF found # ReturnedNone
             THEN found
             ELSE FirstOfParts(parts, wanted, i + 1)

\* _extract_body(payload, mime_type)
ExtractBody(part, wanted) ==
    IF Get(part, "mimeType", "") = wanted /\ "data" \in DOMAIN Get(part, "body", EmptyDict)
    THEN DecodeData(part["body"]["data"])
    ELSE FirstOfParts(Get(part, "parts", <<>>), wanted, 1)

\* ------------------------------------------------------------ environment
\* body.data of the parts: "Hi", e-acute, "<p>", an empty text, a byte that
\* is not UTF-8, a cut two-byte character, a character outside the alphabet,
\* text that ends inside a quad, and a character that is not ASCII.
Data ==
    [hi |-> <<"S", "G", "k", "=">>,
     eacute |-> <<"w", "6", "k", "=">>,
     html |-> <<"P", "H", "A", "-">>,
     empty |-> <<>>,
     badUtf8 |-> <<"_", "w", "=", "=">>,
     cutUtf8 |-> <<"w", "w", "=", "=">>,
     junk |-> <<"S", "!", "G", "k", "=">>,
     noPadding |-> <<"S", "G", "k">>,
     oneChar |-> <<"S">>,
     nonAscii |-> <<"S", "G", "U+00E9", "=">>]

Leaf(mimeType, data) == [mimeType |-> mimeType, body |-> [size |-> Len(data), data |-> data]]
NoDataPart(mimeType) == [mimeType |-> mimeType, body |-> [size |-> 0]]
Multipart(parts) == [mimeType |-> "multipart/mixed", body |-> [size |-> 0], parts |-> parts]

Leaves ==
    {Leaf("text/plain", Data.hi), Leaf("text/plain", Data.eacute),
     Leaf("text/plain", Data.noPadding), Leaf("text/html", Data.html),
     NoDataPart("text/plain")}

\* Trees of multipart nodes, each with at most one part that is a tree
\* itself and at most one leaf beside it.
RECURSIVE Trees(_)
Trees(n) ==
    IF n = 0 THEN Leaves
    ELSE LET sub == Trees(n - 1)
         IN  Leaves \cup {Multipart(<<>>)}
                \cup {Multipart(<<t>>) : t \in sub}
                \cup {Multipart(<<l, t>>) : l \in Leaves, t \in sub}
                \cup {Multipart(<<t, l>>) : t \in sub, l \in Leaves}

\* Single parts with the other data, a part that has data and parts, and
\* the empty payload.
OtherPayloads ==
    {Leaf("text/plain", d) :
        d \in {Data.empty, Data.badUtf8, Data.cutUtf8, Data.junk, Data.oneChar, Data.nonAscii}}
    \cup {[mimeType |-> "text/plain", body |-> [size |-> 4, data |-> Data.hi],
           parts |-> <<Leaf("text/plain", Data.eacute)>>],
          Multipart(<<Leaf("text/plain", Data.empty), Leaf("text/plain", Data.hi)>>),
          EmptyDict}
Payloads == Trees(MaxDepth) \cup OtherPayloads
WantedTypes == {"text/plain", "text/html"}

\* _extract_body is called once on a payload.
CallExtractBody ==
    /\ ret = NotCalled
    /\ ret' = ExtractBody(payload, mime_type)
    /\ UNCHANGED <<authVars, original, emailAddress, api_calls, args, raw, payload, mime_type>>

ExtractInit ==
    /\ AuthIdle
    /\ MailIdle
    /\ MimeIdle
    /\ payload \in Payloads
    /\ mime_type \in WantedTypes
    /\ ret = NotCalled
ExtractNext == CallExtractBody
ExtractSpec == ExtractInit /\ [][ExtractNext]_vars

\* =========================================================== convenience
\* ------------------------------------------------------------ environment
\* Header values of the original message; Absent: the message has no such
\* header.
Absent == <<"(absent)">>
FromChoices ==
    {Absent,
     <<"alice@x.com">>,
     <<"Alice", "<", "alice@x.com", ">">>,
     <<"me@x.com">>,
     <<"Me", "<", "ME@X.com", ">">>,
     <<DQUOTE, "Doe", ",", "John", DQUOTE, "<", "john@x.com", ">">>}
ReplyToChoices ==
    {Absent,
     <<>>,
     <<"reply@x.com">>,
     <<"Alice", "<", "ALICE@x.com", ">">>,
     <<"me@x.com">>,
     <<"list@x.com", ",", "bob@x.com">>}
ToChoices ==
    {Absent,
     <<"me@x.com">>,
     <<"Me", "<", "me@x.com", ">", ",", "Bob", "<", "bob@x.com", ">">>,
     <<"me@x.com", ",", "Alice", "<", "alice@x.com", ">">>,
     <<DQUOTE, "Doe", ",", "John", DQUOTE, "<", "john@x.com", ">", ",", "me@x.com">>}
CcChoices ==
    {Absent,
     <<"charlie@x.com", ",", "dave@x.com">>,
     <<"BOB@x.com", ",", "Me", "<", "me@x.com", ">">>}
SubjectChoices == {<<"Hello">>, <<"RE:", "Hello">>}
ReferencesChoices == {Absent, <<"<ref1@x.com>">>}
ProfileAddresses == {"me@x.com", "Me@X.com"}

\* The headers list of a message resource, in the order Gmail lists them.
HeaderList(pairs) ==
    LET present == SelectSeq(pairs, LAMBDA h : h.value # Absent)
    IN  present
Originals ==
    {[threadId |-> "thread1",
      payload |-> [headers |-> HeaderList(<<Header("From", f), Header("Reply-To", r),
                                            Header("To", t), Header("Cc", c),
                                            Header("Subject", sub),
                                            Header("Message-ID", <<"<orig@x.com>">>),
                                            Header("References", refs)>>)]] :
        f \in FromChoices, r \in ReplyToChoices, t \in ToChoices, c \in CcChoices,
        sub \in SubjectChoices, refs \in ReferencesChoices}

\* Messages with a body: a text part, a text part whose data lacks its
\* padding, an empty text part, and HTML before text in a multipart.
FullOriginals ==
    {[threadId |-> "thread1",
      payload |-> [headers |-> <<Header("From", <<"alice@x.com">>),
                                 Header("Subject", sub),
                                 Header("Message-ID", <<"<orig@x.com>">>)>>] @@ part] :
        sub \in {<<"Hello">>, <<"FWD:", "Hello">>},
        part \in {Leaf("text/plain", Data.hi), Leaf("text/plain", Data.noPadding),
                  Leaf("text/plain", Data.empty),
                  Multipart(<<Leaf("text/html", Data.html),
                              Leaf("text/plain", Data.eacute)>>)}}

\* get_message(message_id, format_="metadata", metadata_headers=names): the
\* resource with the headers that were asked for.
GetMessageMetadata(message, names) ==
    [message EXCEPT !.payload =
        [headers |-> SelectSeq(@.headers,
                               LAMBDA h : \E i \in DOMAIN names :
                                              Lower(names[i]) = Lower(h.name))]]

\* The message id the caller passes, and the reply text.
MessageId == "msg1"
ReplyBody == <<"Thanks!">>

\* ------------------------------------------------------- reply, reply_all
\* Variant: From is preferred to Reply-To.
PrimaryToFromFirst(headers) ==
    IF GetHeader(headers, "From") # <<>>
    THEN GetHeader(headers, "From")
    ELSE GetHeader(headers, "Reply-To")

\* _get_header(headers, "Reply-To") or _get_header(headers, "From")
PrimaryTo(headers) ==
    IF GetHeader(headers, "Reply-To") # <<>>
    THEN GetHeader(headers, "Reply-To")
    ELSE GetHeader(headers, "From")

\* The subject with "Re: " put in front unless it starts with it.
ReplySubject(subject) ==
    IF subject # <<>> /\ Lower(subject[1]) = "re:" THEN subject ELSE <<"Re:">> \o subject

ReplyHeaders == <<"From", "Subject", "Message-ID", "References", "Reply-To">>
ReplyAllHeaders == <<"From", "To", "Cc", "Subject", "Message-ID", "References", "Reply-To">>

\* What a convenience method ends with: the resource send_raw_message
\* returned, or the GmailAPIError of its call number fail (0: none fails),
\* after which no further call is made.
Outcome(methods, fail) ==
    /\ api_calls' = IF fail = 0 THEN methods ELSE SubSeq(methods, 1, fail)
    /\ ret' = IF fail = 0 THEN [kind |-> "dict"] ELSE Raised("GmailAPIError")

\* reply(message_id, body)
Reply ==
    /\ api_calls = <<>>
    /\ \E fail \in 0..2 :
       LET fetched == GetMessageMetadata(original, ReplyHeaders)
           headers == fetched.payload.headers
           built == BuildReplyMessage(
                        [ReplyDefaults EXCEPT !.references = GetHeader(headers, "References")]
                        @@ [to |-> PrimaryTo(headers),
                            subject |-> ReplySubject(GetHeader(headers, "Subject")),
                            body |-> ReplyBody,
                            message_id |-> GetHeader(headers, "Message-ID")])
       IN  Outcome(
             <<[method |-> "get_message", message_id |-> MessageId,
                format_ |-> "metadata", metadata_headers |-> ReplyHeaders],
               [method |-> "send_raw_message", raw |-> built,
                thread_id |-> fetched.threadId]>>, fail)
    /\ UNCHANGED <<authVars, original, emailAddress, args, raw, payload, mime_type>>

\* The loop of reply_all over getaddresses(all_headers).
RECURSIVE CollectCc(_, _, _, _, _)
CollectCc(addresses, i, seen_emails, my_email, cc_addrs) ==
    IF i > Len(addresses) THEN cc_addrs
    ELSE LET display_name == addresses[i].name
             email_addr == addresses[i].addr
             bare == Lower(email_addr)
             full == IF display_name # <<>>
                     THEN display_name \o <<"<", email_addr, ">">>
                     ELSE <<email_addr>>
         IN  IF bare # "" /\ bare \notin seen_emails /\ bare # my_email
             THEN CollectCc(addresses, i + 1, seen_emails \cup {bare}, my_email,
                            Append(cc_addrs, full))
             ELSE CollectCc(addresses, i + 1, seen_emails, my_email, cc_addrs)

\* reply_all(message_id, body); strict: which parseaddr the interpreter has.
ReplyAll ==
    /\ api_calls = <<>>
    /\ \E strict \in BOOLEAN, fail \in 0..3 :
        LET fetched == GetMessageMetadata(original, ReplyAllHeaders)
            headers == fetched.payload.headers
            to_addr == PrimaryTo(headers)
            my_email == Lower(emailAddress)
            all_headers == SelectSeq(<<GetHeader(headers, "From"), GetHeader(headers, "To"),
                                       GetHeader(headers, "Cc")>>,
                                     LAMBDA h : h # <<>>)
            cc_addrs == CollectCc(GetAddresses(all_headers), 1,
                                  {ExtractEmail(to_addr, strict)}, my_email, <<>>)
            built == BuildReplyMessage(
                         [ReplyDefaults EXCEPT
                             !.references = GetHeader(headers, "References"),
                             !.cc = IF cc_addrs # <<>> THEN JoinComma(cc_addrs) ELSE None]
                         @@ [to |-> to_addr,
                             subject |-> ReplySubject(GetHeader(headers, "Subject")),
                             body |-> ReplyBody,
                             message_id |-> GetHeader(headers, "Message-ID")])
        IN  Outcome(
              <<[method |-> "get_message", message_id |-> MessageId,
                 format_ |-> "metadata", metadata_headers |-> ReplyAllHeaders],
                [method |-> "get_profile"],
                [method |-> "send_raw_message", raw |-> built,
                 thread_id |-> fetched.threadId]>>, fail)
    /\ UNCHANGED <<authVars, original, emailAddress, args, raw, payload, mime_type>>

\* The subject with "Fwd: " put in front unless it starts with it.
ForwardSubject(subject) ==
    IF subject # <<>> /\ Lower(subject[1]) = "fwd:" THEN subject ELSE <<"Fwd:">> \o subject

\* forward(message_id, to, note): an exception of _extract_body leaves the
\* method after the fetch.
Forward ==
    /\ api_calls = <<>>
    /\ \E note \in {None, <<"FYI">>}, fail \in 0..2 :
        LET headers == original.payload.headers
            extracted == ExtractBody(original.payload, "text/plain")
            original_body == IF extracted.kind = "str" /\ extracted.text # <<>>
                             THEN extracted.text
                             ELSE <<"(no text body found)">>
            built == BuildForwardMessage(
                         [to |-> <<"fwd@x.com">>,
                          subject |-> ForwardSubject(GetHeader(headers, "Subject")),
                          original_body |-> original_body,
                          note |-> note, from_addr |-> None, html_body |-> None])
            fetch == [method |-> "get_message", message_id |-> MessageId,
                      format_ |-> "full", metadata_headers |-> None]
        IN  IF extracted.kind = "raised" /\ fail # 1
            THEN api_calls' = <<fetch>> /\ ret' = extracted
            ELSE Outcome(<<fetch, [method |-> "send_raw_message", raw |-> built,
                                   thread_id |-> None]>>, fail)
    /\ UNCHANGED <<authVars, original, emailAddress, args, raw, payload, mime_type>>

\* A client whose mailbox holds one message calls reply, reply_all or
\* forward on it.
ReplyInit ==
    /\ AuthIdle
    /\ original \in Originals \cup FullOriginals
    /\ emailAddress \in ProfileAddresses
    /\ api_calls = <<>>
    /\ MimeIdle
    /\ BodyIdle
ReplyNext == Reply \/ ReplyAll \/ Forward
ReplySpec == ReplyInit /\ [][ReplyNext]_vars

\* ============================================================== transport
\* An httpx.Response: its status code and its body, the body as its text
\* and as what json() makes of it.  A JSON value carries its type; a str is
\* its text.
JsonObject(fields) == [type |-> "object", fields |-> fields]
NotJson == [type |-> "invalid"]
ResponseBodies ==
    {[text |-> <<>>, json |-> NotJson],
     [text |-> <<"Internal", "Server", "Error">>, json |-> NotJson],
     [text |-> <<"{error:{message:Not Found}}">>,
      json |-> JsonObject([error |-> JsonObject([message |-> <<"Not", "Found">>])])],
     [text |-> <<"{error:{code:404}}">>,
      json |-> JsonObject([error |-> JsonObject([code |-> <<"404">>])])],
     [text |-> <<"{error:invalid_grant}">>,
      json |-> JsonObject([error |-> [type |-> "string"]])],
     [text |-> <<"[1]">>, json |-> [type |-> "array"]],
     [text |-> <<"{id:t1}">>, json |-> JsonObject([id |-> <<"t1">>])]}

\* Response.is_success, which raise_for_status tests: 200 <= code <= 299.
IsSuccess(status_code) == status_code \div 100 = 2

\* The answers of the Gmail API: a 2xx answer has a JSON body or none.
Responses ==
    {r \in [status_code : {200, 204, 304, 404, 500}, body : ResponseBodies] :
        IsSuccess(r.status_code) => (r.body.text = <<>> \/ r.body.json # NotJson)}

\* Variant: the message is always the text of the response.
RaiseApiErrorTextOnly(resp) ==
    IF IsSuccess(resp.status_code) THEN ReturnedNone
    ELSE [kind |-> "raised", type |-> "GmailAPIError",
          status_code |-> resp.status_code, message |-> resp.body.text]

\* _raise_api_error(resp): resp.json().get("error", {}).get("message",
\* resp.text), and resp.text when any of it raises.
RaiseApiError(resp) ==
    IF IsSuccess(resp.status_code) THEN ReturnedNone
    ELSE LET j == resp.body.json
             error == IF j.type = "object" /\ "error" \in DOMAIN j.fields
                      THEN j.fields["error"]
                      ELSE JsonObject(EmptyDict)
             detail == IF j.type = "object" /\ error.type = "object"
                          /\ "message" \in DOMAIN error.fields
                       THEN error.fields["message"]
                       ELSE resp.body.text
         IN  [kind |-> "raised", type |-> "GmailAPIError",
              status_code |-> resp.status_code, message |-> detail]

\* _get, _post, _patch, _put: resp.json() if resp.content else {}; _delete:
\* resp.status_code.
Verb(name, resp) ==
    LET raised == RaiseApiError(resp)
    IN  IF raised.kind = "raised" THEN raised
        ELSE IF name = "_delete" THEN [kind |-> "int", value |-> resp.status_code]
        ELSE IF resp.body.text = <<>> THEN [kind |-> "json", value |-> JsonObject(EmptyDict)]
        ELSE IF resp.body.json = NotJson THEN Raised("JSONDecodeError")
        ELSE [kind |-> "json", value |-> resp.body.json]

\* The verbs, and the endpoint wrappers that post.
Verbs == {"_get", "_post", "_delete", "_patch", "_put"}
MessagePosts == {"modify_message", "trash_message", "untrash_message"}
ThreadPosts == {"modify_thread", "trash_thread", "untrash_thread", "create_filter"}

\* A wrapper of messages.py returns what _post returned; a wrapper of
\* threads.py and create_filter read .content or .text of what _post
\* returned, which is a dict.
Wrapper(name, resp) ==
    LET posted_ == Verb("_post", resp)
    IN  IF name \in Verbs THEN Verb(name, resp)
        ELSE IF name \in MessagePosts \/ posted_.kind = "raised" THEN posted_
        ELSE Raised("AttributeError")

\* One call on a client: the request goes out once and is answered.
CallTransport ==
    /\ ret = NotCalled
    /\ api_calls' = <<[method |-> IF args.method \in Verbs THEN args.method ELSE "_post"]>>
    /\ ret' = Wrapper(args.method, args.response)
    /\ UNCHANGED <<authVars, original, emailAddress, args, raw, payload, mime_type>>

TransportInit ==
    /\ AuthIdle
    /\ MailIdle
    /\ raw = NotBuilt
    /\ BodyIdle
    /\ args \in [method : Verbs \cup MessagePosts \cup ThreadPosts, response : Responses]
TransportNext == CallTransport
TransportSpec == TransportInit /\ [][TransportNext]_vars

\* ------------------------------------------------- reading the call's log
Range(s) == {s[i] : i \in DOMAIN s}
Count(p, e) == Cardinality({i \in DOMAIN log[p] : log[p][i] = e})
\* Event e happened after event anchor in the current call of p.
After(p, e, anchor) ==
    \E i, j \in DOMAIN log[p] : i < j /\ log[p][i] = anchor /\ log[p][j] = e

\* The record _load_token returned, its expiry, and the expiry test's view.
LoadedRecord(p) == JsonFields(readData[p])
StoredExpiry(p) == Get(LoadedRecord(p), "expires_at", 0)
Decided(p) == checkNow[p] >= 0
Due(p) == StoredExpiry(p) < checkNow[p] + 300
InRefreshBranch(p) == pc[p] = "creds" \/ After(p, "creds", "check")
Refreshed(p) == After(p, "post", "check")

\* ------------------------------------------------------------------ C1
\* C1: _load_and_refresh_token takes the refresh branch, and posts to the
\* token endpoint, only if the stored expires_at is < now + 300; a call that
\* returns has refreshed iff that held; in every other case it returns the
\* stored access_token unchanged, having read no client configuration,
\* posted nothing and opened or written no file.
C1_RefreshIffDue ==
    \A p \in Procs :
        Decided(p) =>
            /\ InRefreshBranch(p) <=> Due(p)
            /\ Refreshed(p) => Due(p)
            /\ pc[p] = "ready" => (Refreshed(p) <=> Due(p))
            /\ ~Due(p) =>
                  /\ pc[p] \in {"return", "ready"}
                  /\ token_data[p] = LoadedRecord(p)
                  /\ pc[p] = "ready" => result[p] = LoadedRecord(p)["access_token"]
                  /\ ~After(p, "creds", "load")
                  /\ ~After(p, "post", "load")
                  /\ ~After(p, "open", "load")
                  /\ ~After(p, "write", "load")

\* A call made exactly 300 s before the expiry returns the stored token.
C1_Witness ==
    \E p \in Procs :
        /\ pc[p] = "ready"
        /\ StoredExpiry(p) = checkNow[p] + 300
        /\ result[p] = "A0"
        /\ ~Refreshed(p)

\* ------------------------------------------------------------------ C2
\* C2 as stated: a call at expires_at - 301 refreshes and a call at
\* expires_at - 299 does not.
C2_AsClaimed ==
    \A p \in Procs :
        Decided(p) =>
            /\ checkNow[p] = StoredExpiry(p) - 301 => InRefreshBranch(p)
            /\ checkNow[p] = StoredExpiry(p) - 299 => ~InRefreshBranch(p)

\* C2 amended: a call at expires_at - 301 does not refresh and returns the
\* stored token; a call at expires_at - 299 takes the refresh branch and, if
\* it returns, has posted to the token endpoint and returns the new token.
C2_BoundaryCalls ==
    \A p \in Procs :
        Decided(p) =>
            /\ checkNow[p] = StoredExpiry(p) - 301 =>
                  /\ ~InRefreshBranch(p)
                  /\ ~Refreshed(p)
                  /\ pc[p] = "ready" => result[p] = LoadedRecord(p)["access_token"]
            /\ checkNow[p] = StoredExpiry(p) - 299 =>
                  /\ InRefreshBranch(p)
                  /\ pc[p] = "ready" =>
                        /\ Refreshed(p)
                        /\ result[p] = new_data[p]["access_token"]

\* A call made 299 s before the expiry has refreshed and returned.
C2_Witness ==
    \E p \in Procs :
        /\ pc[p] = "ready"
        /\ checkNow[p] = StoredExpiry(p) - 299
        /\ Refreshed(p)
        /\ result[p] \in IssuedTokens

\* ------------------------------------------------------------------ C3
StoredRefreshToken(a) == Get(JsonFields(fs[a].data), "refresh_token", "")
Quiet == \A p \in Procs : pc[p] \in Terminal

\* C3: whenever no call is under way, the stored refresh_token is the one of
\* the latest refresh response that carried one, or else the one stored
\* before the refreshes (expectRT follows the responses, not the code).
C3_RefreshTokenKept ==
    Quiet => \A a \in Accounts : StoredRefreshToken(a) = expectRT[a]

\* A second refresh in a row, whose response carries no refresh_token, has
\* kept the R2 that the first refresh's response brought.
C3_Witness ==
    \E p \in Procs :
        /\ calls[p] = 2
        /\ op[p] = "client"
        /\ pc[p] = "ready"
        /\ Refreshed(p)
        /\ "refresh_token" \notin DOMAIN new_data[p]
        /\ StoredRefreshToken(acct[p]) = "R2"

\* ------------------------------------------------------------------ C4
RefreshFailed(p) ==
    /\ pc[p] = "failed"
    /\ Len(log[p]) > 0
    /\ log[p][Len(log[p])] = "post"

\* C4: a call whose refresh post failed has ended with the post's exception
\* after one single post, and the token file holds exactly the text the call
\* loaded: the call opened and wrote no file.
C4_FailedRefreshKeepsFile ==
    \A p \in Procs :
        RefreshFailed(p) =>
            /\ err[p].type \in {"ConnectError", "HTTPStatusError"}
            /\ Count(p, "post") = 1
            /\ ~After(p, "open", "load")
            /\ ~After(p, "write", "load")
            /\ fs[acct[p]].exists
            /\ fs[acct[p]].data = readData[p]
            /\ result[p] = ""

C4_Witness ==
    \E p \in Procs :
        /\ RefreshFailed(p)
        /\ err[p].type = "HTTPStatusError"
        /\ fs[acct[p]].data = readData[p]
        /\ JsonValid(fs[acct[p]].data)

\* ------------------------------------------------------------------ C5
\* C5: a call that finds no token file for its account ends with
\* FileNotFoundError, whose message names the account and tells to run
\* authorize; the call has done nothing but the load: no client
\* configuration read, no post, no file opened, and there is still no file.
C5_NoTokenFile ==
    \A p \in Procs :
        ("load" \in Range(log[p]) /\ ~fs[acct[p]].exists) =>
            /\ pc[p] = "failed"
            /\ err[p].type = "FileNotFoundError"
            /\ acct[p] \in Range(err[p].msg)
            /\ "Run GmailClient.authorize(account=" \in Range(err[p].msg)
            /\ op[p] = "client"
            /\ log[p] = <<"load">>
            /\ result[p] = ""

C5_Witness ==
    \E p \in Procs :
        /\ pc[p] = "failed"
        /\ op[p] = "client"
        /\ log[p] = <<"load">>
        /\ ~fs[acct[p]].exists
        /\ err[p].type = "FileNotFoundError"

\* ------------------------------------------------------------------ C6
\* C6: whatever _load_token reads from an existing token file is a complete
\* record, never an empty or half-written text.
C6_ReaderSeesWholeRecord ==
    \A p \in Procs :
        ("load" \in Range(log[p]) /\ err[p].type # "FileNotFoundError") =>
            JsonValid(readData[p])

\* ------------------------------------------------------------------ C7
\* C7: once a call has saved the token, the token file has mode 0600.
C7_SavedFileIs0600 ==
    \A p \in Procs :
        "write" \in Range(log[p]) => fs[acct[p]].mode = 384

\* ------------------------------------------------------------------ C8
BothRefreshed ==
    \A p \in Procs :
        /\ op[p] = "client"
        /\ pc[p] = "ready"
        /\ Refreshed(p)
        /\ After(p, "write", "post")
        /\ acct[p] = "work"

\* C8: when both processes have refreshed the same account and returned,
\* the token file holds exactly the text of the later write.
C8_LastWriterWins ==
    BothRefreshed => fs["work"].data = lastWrite["work"]

\* ------------------------------------------------------------------ C9
\* The events of authorize up to the constructor's expiry test, in the order
\* of its statements; the fifth is the status the listener answered with.
AuthorizeOrder ==
    <<"creds", "bind", "browser", "request", "status", "close", "exchange",
      "open", "write", "load", "check">>
FollowsAuthorizeOrder(p) ==
    \A i \in DOMAIN log[p] :
        i <= Len(AuthorizeOrder) =>
            IF i = 5 THEN log[p][i] \in {"200", "501"}
            ELSE log[p][i] = AuthorizeOrder[i]

\* The state of the flow's state machine that a call of authorize is in.
Phase(p) ==
    IF pc[p] = "failed" THEN "Failed"
    ELSE IF pc[p] = "ready" THEN "Ready"
    ELSE IF "exchange" \in Range(log[p]) THEN "TokenExchanged"
    ELSE IF "request" \in Range(log[p]) /\ auth_code[p] # "" THEN "CodeReceived"
    ELSE IF port = p THEN "AwaitingCallback"
    ELSE "Idle"
PhaseAfter(ph) ==
    CASE ph = "Idle" -> "AwaitingCallback"
      [] ph = "AwaitingCallback" -> "CodeReceived"
      [] ph = "CodeReceived" -> "TokenExchanged"
      [] ph = "TokenExchanged" -> "Ready"
      [] OTHER -> ph

C9_State ==
    \A p \in Procs :
        op[p] = "authorize" =>
            /\ FollowsAuthorizeOrder(p)
            \* persisted only after a successful exchange
            /\ pc[p] \in {"auth_save_open", "auth_save_write"} =>
                  /\ "exchange" \in Range(log[p])
                  /\ "access_token" \in DOMAIN token_data[p]
            /\ "open" \in Range(log[p]) => After(p, "open", "exchange")
            \* the client is returned only after the token is persisted
            /\ pc[p] = "ready" =>
                  /\ After(p, "write", "exchange")
                  /\ After(p, "load", "write")
                  /\ result[p] # ""
            \* no step runs twice
            /\ Count(p, "bind") <= 1
            /\ Count(p, "request") <= 1
            /\ Count(p, "exchange") <= 1
            \* a failure ends the call with an error
            /\ pc[p] = "failed" => err[p].type # "" /\ result[p] = ""

C9_Step ==
    \A p \in Procs :
        (op[p] = "authorize" /\ calls'[p] = calls[p]) =>
            /\ Phase(p)' \in {Phase(p), PhaseAfter(Phase(p)), "Failed"}
            /\ Phase(p) \in {"Failed", "Ready"} =>
                  /\ Phase(p)' = Phase(p)
                  /\ log'[p] = log[p]
                  /\ fs' = fs

\* C9: a call of authorize moves Idle -> AwaitingCallback -> CodeReceived ->
\* TokenExchanged -> Ready one state at a time, or to Failed; its steps run
\* in the order of the flow and none twice; the token file is opened only
\* after a successful exchange and the client is ready only after the write;
\* a failed call has an error and takes no further step.
C9_AuthorizeFlow == []C9_State /\ [][C9_Step]_vars

\* A call of authorize is Ready, its token saved after the exchange.
C9_Witness ==
    \E p \in Procs :
        /\ op[p] = "authorize"
        /\ pc[p] = "ready"
        /\ After(p, "write", "exchange")
        /\ JsonValid(fs[acct[p]].data)
        /\ result[p] \in IssuedTokens

\* ----------------------------------------------------------------- C10
NoCodeReceived(p) ==
    /\ op[p] = "authorize"
    /\ "request" \in Range(log[p])
    /\ auth_code[p] = ""

\* C10: once the listener's one request brought no code, authorize goes on to
\* close the listener and fails there with RuntimeError ("No auth code
\* received"); it never posts to the token endpoint and never opens or
\* writes the token file.
C10_NoCodeFails ==
    \A p \in Procs :
        NoCodeReceived(p) =>
            /\ pc[p] \in {"close", "failed"}
            /\ pc[p] = "failed" =>
                  /\ err[p].type = "RuntimeError"
                  /\ log[p][Len(log[p])] = "close"
            /\ Range(log[p]) \cap {"exchange", "post", "open", "write", "load"} = {}
            /\ result[p] = ""

\* A GET without a code was answered, and the call failed.
C10_Witness ==
    \E p \in Procs :
        /\ NoCodeReceived(p)
        /\ "200" \in Range(log[p])
        /\ pc[p] = "failed"
        /\ err[p].type = "RuntimeError"
        /\ port = ""

\* ------------------------------------------------------------------ C11
ListenerClosed(p) == "close" \in Range(log[p])

\* C11: during one authorize call the loopback listener handles exactly one
\* HTTP request: once the listener is closed, one request has been handled,
\* the captured code is the code parameter of that request, the request was
\* answered with status 200 and the confirmation page, and the port is no
\* longer held, so that no second connection is accepted.
C11_OneRequestAnswered200 ==
    \A p \in Procs :
        /\ Count(p, "request") <= 1
        /\ ListenerClosed(p) =>
              /\ Count(p, "request") = 1
              /\ auth_code[p] = Get(request[p].query, "code", "")
              /\ "200" \in Range(log[p])
              /\ port # p

\* ------------------------------------------------------------------ C18
Last(s) == s[Len(s)]
JustWrote(p) == log[p] # <<>> /\ Last(log[p]) = "write"
WrittenRecord(p) == JsonFields(lastWrite[acct[p]])

\* C18: every record written by a code exchange or a refresh has expires_at
\* equal to the time of that exchange or refresh plus the expires_in of the
\* token endpoint's response, an absolute time and not the lifetime alone.
C18_AbsoluteExpiry ==
    \A p \in Procs :
        (JustWrote(p) /\ "expires_in" \in DOMAIN posted[p].response) =>
            /\ posted[p].at >= 0
            /\ WrittenRecord(p)["expires_at"] =
                  posted[p].at + posted[p].response["expires_in"]

\* A refresh that follows an exchange in the same call, after the clock has
\* moved: the absolute and the relative value differ.
C18_Witness ==
    \E p \in Procs :
        /\ JustWrote(p)
        /\ "exchange" \in Range(log[p])
        /\ Refreshed(p)
        /\ posted[p].at > 0
        /\ "expires_in" \in DOMAIN posted[p].response
        /\ WrittenRecord(p)["expires_at"] # posted[p].response["expires_in"]

\* ------------------------------------------------------------------ C19
\* C19: when _load_and_refresh_token returns after a refresh, the new
\* access_token and expires_at are on disk already: in a single process the
\* returned string is the access_token of the stored record.
C19_ReturnedIsStored ==
    \A p \in Procs :
        (pc[p] = "ready" /\ Refreshed(p)) =>
            LET f == fs[acct[p]]
            IN  /\ f.exists
                /\ JsonValid(f.data)
                /\ JsonFields(f.data)["access_token"] = result[p]
                /\ JsonFields(f.data)["expires_at"] = token_data[p]["expires_at"]
                /\ result[p] = posted[p].response["access_token"]

C19_Witness ==
    \E p \in Procs :
        /\ pc[p] = "ready"
        /\ Refreshed(p)
        /\ result[p] # Get(LoadedRecord(p), "access_token", "")
        /\ JsonFields(fs[acct[p]].data)["access_token"] = result[p]

\* ------------------------------------------- reading the message sent
HasSent == api_calls # <<>> /\ api_calls[Len(api_calls)].method = "send_raw_message"
Sent == api_calls[Len(api_calls)]
\* reply or reply_all has sent: they fetch with format_="metadata".
HasReplied == HasSent /\ api_calls[1].format_ = "metadata"
IsReplyAll == HasSent /\ \E i \in DOMAIN api_calls : api_calls[i].method = "get_profile"
OutTo == MessageHeader(Sent.raw, "To")
OutCc == MessageHeader(Sent.raw, "Cc")
\* The addresses a header of the outgoing message designates to its reader.
Designated(value) == IF value = None THEN <<>> ELSE GetAddresses(<<value>>)
Recipients == Designated(OutTo) \o Designated(OutCc)
BareSet(entries) == {Lower(entries[i].addr) : i \in DOMAIN entries}
OrigHeader(name) == GetHeader(original.payload.headers, name)
SelfAddress == Lower(emailAddress)
FromAddress == Lower(ParseAddr(OrigHeader("From"), FALSE).addr)
CandidatePool == GetAddresses(<<OrigHeader("From"), OrigHeader("To"), OrigHeader("Cc")>>)

\* ------------------------------------------------------------------ C12
\* C12: in reply_all the user's own address, compared case-insensitively on
\* the bare address, is in neither the To nor the Cc of the outgoing
\* message, whatever the original From, Reply-To, To and Cc are.
C12_SelfNeverRecipient ==
    IsReplyAll => SelfAddress \notin BareSet(Recipients)

\* ------------------------------------------------------------------ C13
\* C13: in reply_all no two recipients among the To and the Cc of the
\* outgoing message have the same lowercased bare address.
C13_NoDuplicateRecipient ==
    IsReplyAll =>
        \A i, j \in DOMAIN Recipients :
            i # j => Lower(Recipients[i].addr) # Lower(Recipients[j].addr)

\* ------------------------------------------------------------------ C14
ExpectedTo ==
    IF OrigHeader("Reply-To") # <<>> THEN OrigHeader("Reply-To") ELSE OrigHeader("From")
ReplyToNamesAnother ==
    /\ OrigHeader("Reply-To") # <<>>
    /\ FromAddress # ""
    /\ FromAddress \notin BareSet(GetAddresses(<<OrigHeader("Reply-To")>>))
FromInCc == FromAddress \in BareSet(Designated(OutCc))

\* C14 as claimed: the To of the outgoing message is the original Reply-To
\* when that is present and non-empty and the original From otherwise, and
\* reply_all adds the original From to Cc whenever Reply-To names a
\* different address.
C14_AsClaimed ==
    HasReplied =>
        /\ OutTo = ExpectedTo
        /\ (IsReplyAll /\ ReplyToNamesAnother) => FromInCc

\* C14: the To of the outgoing message of reply and reply_all is the
\* original Reply-To when that is present and non-empty and the original
\* From otherwise; reply_all adds the original From to Cc when Reply-To
\* names a different address and From is not the user's own address.
C14_PrimaryTo ==
    HasReplied =>
        /\ OutTo = ExpectedTo
        /\ (IsReplyAll /\ ReplyToNamesAnother /\ FromAddress # SelfAddress) => FromInCc

C14_Witness ==
    /\ IsReplyAll
    /\ ReplyToNamesAnother
    /\ FromAddress # SelfAddress
    /\ SelfAddress \notin BareSet(Designated(OutTo))
    /\ OutTo = OrigHeader("Reply-To")
    /\ OutTo # OrigHeader("From")
    /\ FromInCc

\* ------------------------------------------------------------------ C15
DoeJohn == <<DQUOTE, "Doe", ",", "John", DQUOTE, "<", "john@x.com", ">">>

\* C15: every address the Cc of a reply_all designates is an address of the
\* original From, To or Cc with the display name it had there (none when it
\* had none); for an original To of "Doe, John" <john@x.com>, me@x.com the Cc
\* designates john@x.com once, with the display name Doe, John, and the
\* comma between the quotes yields no second address.
C15_DisplayNameKept ==
    IsReplyAll =>
        /\ \A i \in DOMAIN Designated(OutCc) :
              \E k \in DOMAIN CandidatePool : Designated(OutCc)[i] = CandidatePool[k]
        /\ (/\ OrigHeader("To") = DoeJohn \o <<",", "me@x.com">>
            /\ OrigHeader("From") = <<"alice@x.com">>
            /\ OrigHeader("Reply-To") = <<>>
            /\ OrigHeader("Cc") = <<>>)
           => Designated(OutCc) = <<[name |-> <<"Doe", ",", "John">>, addr |-> "john@x.com"]>>

\* ------------------------------------------------------------------ C16
\* The nodes of a payload in depth-first, left-to-right pre-order.
RECURSIVE PreOrder(_)
RECURSIVE PreOrderOfParts(_)
PreOrder(part) == <<part>> \o PreOrderOfParts(Get(part, "parts", <<>>))
PreOrderOfParts(parts) ==
    IF parts = <<>> THEN <<>> ELSE PreOrder(Head(parts)) \o PreOrderOfParts(Tail(parts))
Matching ==
    SelectSeq(PreOrder(payload),
              LAMBDA n : /\ "mimeType" \in DOMAIN n /\ n["mimeType"] = mime_type
                         /\ "body" \in DOMAIN n /\ "data" \in DOMAIN n["body"])
\* The text some data stands for, where it is the encoding of a text.
EncodedText ==
    [d \in {Data.hi, Data.eacute, Data.html, Data.empty} |->
        CASE d = Data.hi -> <<72, 105>>
          [] d = Data.eacute -> <<233>>
          [] d = Data.html -> <<60, 112, 62>>
          [] d = Data.empty -> <<>>]
Called == ret # NotCalled
Depth3Leaf == Multipart(<<Multipart(<<Multipart(<<Leaf("text/plain", Data.hi)>>)>>)>>)

\* C16: _extract_body returns the decoded data of the first node, in
\* depth-first left-to-right pre-order over the payload and its parts, whose
\* mimeType is the wanted one and whose body has data; it returns None
\* exactly when there is no such node.
C16_FirstInPreOrder ==
    Called =>
        IF Matching = <<>>
        THEN ret = ReturnedNone
        ELSE /\ ret.kind = "str"
             /\ Matching[1]["body"]["data"] \in DOMAIN EncodedText
                   => ret.text = EncodedText[Matching[1]["body"]["data"]]

\* The same for the payloads whose first such node holds the encoding of a
\* text: there the traversal is as C16 says.
FirstInPreOrderOfEncodedText ==
    (Called /\ Matching # <<>> /\ Matching[1]["body"]["data"] \in DOMAIN EncodedText)
        => ret = ReturnedText(EncodedText[Matching[1]["body"]["data"]])
NoneIffNoMatch == Called => (ret = ReturnedNone <=> Matching = <<>>)
Depth3Reached ==
    /\ Called /\ payload = Depth3Leaf /\ mime_type = "text/plain"
    /\ ret = ReturnedText(<<72, 105>>)

\* ------------------------------------------------------------------ C17
\* C17: _extract_body never raises: whatever the data of a matching part,
\* malformed base64 and invalid UTF-8 included, the call returns a text or
\* None.
C17_NeverRaises ==
    Called => ret.kind \in {"str", "None"}

\* ------------------------------------------------------------------ C20
Built == raw # NotBuilt
HeaderCount(encoded, name) ==
    Cardinality({i \in 1..Len(encoded.base64url) :
                    /\ encoded.base64url[i][1] = "header"
                    /\ Lower(encoded.base64url[i][2]) = Lower(name)})
IsPlainForm == ContentType(raw) = <<"text/plain">> /\ PartCount(raw) = 0
IsHtmlForm == ContentType(raw) = <<"multipart/alternative">> /\ PartCount(raw) = 2

\* C20: the message build_reply_message returns has one In-Reply-To header,
\* the given message_id, and one References header, the given references
\* when there is one and message_id otherwise, whether the message is the
\* plain text or the plain and HTML alternatives.
C20_ThreadingHeaders ==
    (Built /\ "message_id" \in DOMAIN args) =>
        /\ HeaderCount(raw, "In-Reply-To") = 1
        /\ MessageHeader(raw, "In-Reply-To") = args.message_id
        /\ HeaderCount(raw, "References") = 1
        /\ MessageHeader(raw, "References") =
              (IF args.references \notin {None, <<>>} THEN args.references ELSE args.message_id)
        /\ IF args.html_body \notin {None, <<>>} THEN IsHtmlForm ELSE IsPlainForm

C20_Witness ==
    /\ Built
    /\ "message_id" \in DOMAIN args
    /\ IsHtmlForm
    /\ args.references = None
    /\ args.message_id # <<>>
    /\ MessageHeader(raw, "References") = args.message_id
    /\ MessageHeader(raw, "In-Reply-To") = args.message_id

\* ------------------------------------------------------------------ C27
RefreshFields == {"access_token", "expires_at", "refresh_token"}

\* C27: once a refresh has saved, the record in the token file has the
\* fields of the record the call loaded (and expires_at): every field other
\* than access_token, expires_at and refresh_token has the value it was
\* loaded with, refresh_token too when the response carried none, and no
\* field of the response other than those three has been added.
C27_RefreshFrame ==
    \A p \in Procs :
        (pc[p] \in {"return", "ready"} /\ Refreshed(p)) =>
            LET old == LoadedRecord(p)
                f == fs[acct[p]]
                stored == JsonFields(f.data)
                resp == posted[p].response
            IN  /\ JsonValid(f.data)
                /\ DOMAIN stored = (DOMAIN old) \cup {"expires_at"}
                /\ \A k \in (DOMAIN old) \ RefreshFields : stored[k] = old[k]
                /\ "refresh_token" \notin DOMAIN resp =>
                       stored["refresh_token"] = old["refresh_token"]
                /\ \A k \in (DOMAIN resp) \ (DOMAIN old) : k \notin DOMAIN stored

\* A record with a scope was refreshed by a response with an id_token and
\* another expires_in: the scope and the old expires_in are in the file, the
\* id_token is not.
C27_Witness ==
    \E p \in Procs :
        /\ pc[p] = "ready"
        /\ Refreshed(p)
        /\ Get(LoadedRecord(p), "scope", "") = "gmail.modify"
        /\ "id_token" \in DOMAIN posted[p].response
        /\ posted[p].response["expires_in"] = 301
        /\ LET stored == JsonFields(fs[acct[p]].data)
           IN  /\ stored["scope"] = "gmail.modify"
               /\ stored["expires_in"] = 3599
               /\ stored["access_token"] = "A1"
               /\ "id_token" \notin DOMAIN stored

\* ------------------------------------------------------------------ C28
Listening(p) == op[p] = "authorize" /\ pc[p] = "await"
HasListened(p) == op[p] = "authorize" /\ "browser" \in Range(log[p])

\* C28: while authorize waits in handle_request it has neither returned nor
\* raised, and whatever time passes it leaves the wait only by handling one
\* request that reached the port; a call whose listener was bound and that
\* has gone on or ended (ready or failed) has handled one request.
C28_NoTimeout ==
    /\ [](\A p \in Procs :
            /\ Listening(p) =>
                  /\ request[p] = NoRequest
                  /\ err[p] = NoError
                  /\ result[p] = ""
            /\ (HasListened(p) /\ pc[p] # "await") =>
                  /\ request[p] \in CallbackRequests
                  /\ Count(p, "request") = 1)
    /\ [][\A p \in Procs :
            (Listening(p) /\ pc'[p] # "await") =>
                /\ pc'[p] = "close"
                /\ request'[p] \in CallbackRequests
                /\ Count(p, "request") = 0]_vars

\* The clock has run to its bound and the call still waits for a request.
C28_Witness ==
    \E p \in Procs :
        /\ Listening(p)
        /\ port = p
        /\ now = MaxClock
        /\ request[p] = NoRequest

\* ------------------------------------------------------------------ C29
ConfigError(p) ==
    /\ op[p] = "authorize"
    /\ pc[p] = "failed"
    /\ log[p] = <<"creds">>

\* C29: in authorize the port is bound by the call from before the browser
\* is opened until the request has been handled; the bind comes after the
\* client configuration was loaded, and loaded well; a call that ended with
\* a configuration error has bound no port and opened no browser.
C29_BindBeforeBrowser ==
    \A p \in Procs :
        /\ (op[p] = "authorize" /\ pc[p] \in {"browser", "await", "close"}) => port = p
        /\ "browser" \in Range(log[p]) =>
              /\ After(p, "browser", "bind")
              /\ ~After(p, "bind", "browser")
        /\ "bind" \in Range(log[p]) =>
              /\ log[p][1] = "creds"
              /\ log[p][2] = "bind"
              /\ LoadCredentialsResult(credsFile).ok
        /\ (op[p] = "authorize" /\ ~LoadCredentialsResult(credsFile).ok
              /\ pc[p] \notin {"idle", "auth_creds"}) =>
              /\ ConfigError(p)
              /\ err[p].type \in {"FileNotFoundError", "ValueError"}
              /\ port = ""

\* The browser has been opened and the call listens on the port.
C29_Witness ==
    \E p \in Procs :
        /\ pc[p] = "await"
        /\ log[p] = <<"creds", "bind", "browser">>
        /\ port = p

\* ------------------------------------------------------------------ C30
Constructed(p) == pc[p] = "ready"
ByAccount(p) == op[p] \in {"client", "authorize"}

\* C30: a client constructed from an account has loaded the token once,
\* tested its expiry once and posted at most one refresh, all before the
\* constructor went on to build the transport; every request of the handle
\* carries the bearer token that run returned, and a request leaves the
\* token file, the loaded record and the lifecycle's log as they are.  A
\* client constructed with an explicit access_token has read no file and
\* carries that token, or no Authorization header when it is empty.
C30_TokenFixedAtConstruction ==
    /\ [](\A p \in {"p1"} :
            /\ api_calls # <<>> => Constructed(p)
            /\ (Constructed(p) /\ ByAccount(p)) =>
                  /\ Count(p, "load") = 1
                  /\ Count(p, "check") = 1
                  /\ Count(p, "post") <= 1
                  /\ Last(log[p]) = "return"
                  /\ result[p] = token_data[p]["access_token"]
            /\ op[p] = "client(access_token)" =>
                  /\ Constructed(p)
                  /\ log[p] = <<>>
                  /\ readData[p] = <<>>
                  /\ result[p] \in ExplicitTokens
            /\ \A i \in DOMAIN api_calls :
                  api_calls[i].headers = Headers(result[p]))
    /\ [][api_calls' # api_calls /\ api_calls' # <<>> =>
            UNCHANGED <<fs, log, readData, checkNow, token_data, result, posted>>]_vars

\* Two requests of a client whose constructor refreshed: both carry the
\* refreshed token, after one load and one post.
C30_Witness ==
    /\ Constructed("p1")
    /\ op["p1"] = "client"
    /\ Refreshed("p1")
    /\ Len(api_calls) = 2
    /\ api_calls[1].headers = [Authorization |-> <<"Bearer", "A1">>]
    /\ api_calls[2] = api_calls[1]
    /\ now > checkNow["p1"]

\* ------------------------------------------------------------------ C21
\* The built message as the tests read it: the content types of the message
\* and of its parts, and the texts of its parts, in order.
ContentTypes(encoded) ==
    LET cells == SelectSeq(encoded.base64url,
                           LAMBDA l : l[1] = "header" /\ l[2] = "Content-Type")
    IN  [i \in 1..Len(cells) |-> cells[i][3]]
Texts(encoded) ==
    LET cells == SelectSeq(encoded.base64url, LAMBDA l : l[1] = "text")
    IN  [i \in 1..Len(cells) |-> cells[i][2]]
BuiltForward == Built /\ "note" \in DOMAIN args
BuiltSimple == Built /\ "bcc" \in DOMAIN args
ClaimedForwardBody ==
    (IF Truthy(args.note) THEN args.note ELSE <<>>)
        \o <<"\n", "\n", "---------- Forwarded message ----------", "\n">>
        \o args.original_body

\* C21: the plain text of the message build_forward_message returns is the
\* note, if there is one, then two line feeds, the banner line, a line feed
\* and the original body, with and without a note; with an html_body the
\* message has the plain part with that text and an HTML part that is
\* html_body.
C21_ForwardBody ==
    BuiltForward =>
        /\ Texts(raw)[1] = ClaimedForwardBody
        /\ IF Truthy(args.html_body)
           THEN /\ Texts(raw) = <<ClaimedForwardBody, args.html_body>>
                /\ ContentTypes(raw) =
                      <<<<"multipart/alternative">>, <<"text/plain">>, <<"text/html">>>>
           ELSE ContentTypes(raw) = <<<<"text/plain">>>>

\* ------------------------------------------------------------------ C22
\* C22: the message build_simple_message returns is one text/plain part
\* holding body when there is no html_body, and with an html_body a
\* multipart/alternative of exactly two parts, text/plain holding body and
\* then text/html holding html_body.
C22_SimpleParts ==
    BuiltSimple =>
        IF Truthy(args.html_body)
        THEN /\ PartCount(raw) = 2
             /\ ContentTypes(raw) =
                   <<<<"multipart/alternative">>, <<"text/plain">>, <<"text/html">>>>
             /\ Texts(raw) = <<args.body, args.html_body>>
        ELSE /\ PartCount(raw) = 0
             /\ ContentTypes(raw) = <<<<"text/plain">>>>
             /\ Texts(raw) = <<args.body>>

\* Both bodies given: two parts, the plain one first.
C22_Witness ==
    /\ BuiltSimple
    /\ args.body = <<"Plain", "version">>
    /\ args.html_body = <<"<b>HTML", "version</b>">>
    /\ PartCount(raw) = 2
    /\ Texts(raw)[1] = args.body
    /\ ContentTypes(raw)[3] = <<"text/html">>

\* ------------------------------------------------------------------ C23
Methods == [i \in DOMAIN api_calls |-> api_calls[i].method]
IsForward == api_calls # <<>> /\ api_calls[1].format_ = "full"

\* C23: the message forward sends has no In-Reply-To and no References
\* header and is sent with no thread id; the message reply or reply_all
\* sends is sent with the threadId of the original message.
C23_ForwardNewThread ==
    HasSent =>
        IF IsForward
        THEN /\ HeaderCount(Sent.raw, "In-Reply-To") = 0
             /\ HeaderCount(Sent.raw, "References") = 0
             /\ Sent.thread_id = None
        ELSE /\ Sent.thread_id = original.threadId
             /\ Sent.thread_id = "thread1"
             /\ HeaderCount(Sent.raw, "In-Reply-To") = 1

\* A message that has References itself was forwarded with a note.
C23_Witness ==
    /\ HasSent
    /\ IsForward
    /\ OrigHeader("References") = <<"<ref1@x.com>">>
    /\ MessageHeader(Sent.raw, "Subject") = <<"Fwd:", "Hello">>
    /\ MessageHeader(Sent.raw, "References") = None
    /\ Texts(Sent.raw)[1][1] = "FYI"

\* ------------------------------------------------------------------ C26
ExpectedMethods ==
    IF IsForward THEN <<"get_message", "send_raw_message">>
    ELSE IF api_calls[1].metadata_headers = ReplyAllHeaders
    THEN <<"get_message", "get_profile", "send_raw_message">>
    ELSE <<"get_message", "send_raw_message">>

\* C26: a call of reply, reply_all or forward has made its fixed sequence
\* of client calls, ending with its one send, and returned what the send
\* returned, or it has ended with the GmailAPIError of one of these calls,
\* having made the calls up to that one and none after it: no send after a
\* fetch that raised.
C26_FixedSequence ==
    api_calls # <<>> =>
        IF ret = Raised("GmailAPIError")
        THEN Methods = SubSeq(ExpectedMethods, 1, Len(Methods))
        ELSE /\ Methods = ExpectedMethods
             /\ ret = [kind |-> "dict"]

\* The same for every call in which _extract_body raised nothing.
FixedSequenceUnlessExtractRaises ==
    (api_calls # <<>> /\ (ret.kind = "raised" => ret.type = "GmailAPIError")) =>
        C26_FixedSequence

\* ------------------------------------------------------------------ C24
Answered == ret # NotCalled
ByVerb == args.method \in Verbs
\* The message of the {error: {message}} envelope of a body, when the body
\* is one.
HasEnvelope(body) ==
    /\ body.json.type = "object"
    /\ "error" \in DOMAIN body.json.fields
    /\ body.json.fields["error"].type = "object"
    /\ "message" \in DOMAIN body.json.fields["error"].fields
ProviderMessage(body) ==
    IF HasEnvelope(body) THEN body.json.fields["error"].fields["message"] ELSE body.text

C25_PostWrappersReturnJson ==
    (Answered /\ ~ByVerb /\ IsSuccess(args.response.status_code)) =>
        ret = [kind |-> "json",
               value |-> IF args.response.body.text = <<>>
                         THEN JsonObject(EmptyDict)
                         ELSE args.response.body.json]

\* The same for the wrappers of messages.py alone.
MessagePostsReturnJson ==
    args.method \in MessagePosts => C25_PostWrappersReturnJson

====
